---- MODULE Spec2Model ----
(***************************************************************************)
(* A model of the lantransfer transfer engine: the HTTP receiver           *)
(* (server.py), the HTTP sender (client.py) and the transfer manager       *)
(* (transfer.py), all running on one cooperative asyncio loop.  A handler  *)
(* or coroutine is cut into steps at its await points: everything between  *)
(* two awaits is one atomic action.                                        *)
(***************************************************************************)
EXTENDS Integers, Sequences, FiniteSets, TLC

(***************************************************************************)
(* Bounds of the model.                                                    *)
(***************************************************************************)
\* utils.CHUNK_SIZE (1 MiB), scaled down to bytes the model can enumerate.
ChunkSize == 2
\* How many transfer-ids the receiver mints (how many new inits it accepts).
MaxTransfers == 2
\* How many requests clients other than the modelled sender make.
MaxForeign == 3
\* How many user commands (queue_send, cancel, clear, stop) and environment
\* events (a transport failure, a foreign DELETE, a rewrite of the source
\* file) one run of the application has.
MaxEvents == 3

(***************************************************************************)
(* Constants of the program.                                               *)
(***************************************************************************)
\* TransferClient.max_retries
MaxRetries == 5
\* utils.INITIAL_RETRY_DELAY and utils.MAX_RETRY_DELAY, in seconds.
InitialRetryDelay == 1
MaxRetryDelay == 30

(***************************************************************************)
(* Values.                                                                 *)
(***************************************************************************)
None == "none"

\* hashlib.sha256(...).hexdigest(): a collision-free digest of the bytes fed,
\* never equal to the empty string a client sends for "no hash".
NoHash == <<>>
Hexdigest(data) == <<"sha256", data>>

\* Contents of the source file "f" and of the archive packed from folder "d".
DataF == <<1, 2, 3>>
DataD == <<4, 5>>
\* The bytes of the files inside folder "d" (get_folder_size adds them up), and
\* what file "f" holds after it was rewritten in place.
DirData == <<6>>
DataF2 == <<1, 2, 9>>
\* Contents of the empty source file "e".
DataE == <<>>

\* "m" is a path at which nothing exists.
Paths == {"f", "d", "e", "m"}
\* _send_folder: tarball_name = f"{folder_path.name}.tar.gz"
TarballPath(folder) == "d.tar.gz"

\* server.py:296: final_path.suffix == ".gz" and ".tar" in final_path.name
\* (the _N conflict suffix goes before ".gz", so it does not change the test).
IsTarGz(filename) == filename = "d.tar.gz"

\* tarfile.open(path, "r:gz") succeeds on the bytes _create_tarball wrote.
IsArchive(data) == data = DataD

TempPath(tid) == <<"part", tid>>
FinalPath(filename, n) == <<"final", filename, n>>
ExtractedPath(filename) == <<"dir", filename>>

VARIABLES
    \* TransferServer (the receiver)
    incoming,      \* every IncomingTransfer object created so far, by transfer-id
    live,          \* the keys of TransferServer._transfers
    disk,          \* the download directory: path -> bytes
    handlers,      \* requests and request handlers in flight on the receiver
    \* TransferClient (the sender) and the send worker that runs it
    outgoing,      \* every OutgoingTransfer object created so far, in order
    cur,           \* the OutgoingTransfer send_file is working on (0: none)
    spc,           \* the await at which the send worker is suspended
    job,           \* the arguments of the running send_path call
    cancel_flags,  \* TransferClient._cancel_flags (same keys as _active_transfers)
    resp,          \* the response the sender's pending request has received
    \* TransferManager
    queue,         \* TransferManager._queue, in insertion order
    pending_sends, \* TransferManager._pending_sends
    cancel_tasks,  \* the client.cancel_transfer tasks created and not yet run
    njobs,         \* how many queue-ids queue_send has minted
    mgr,           \* "running", "stopping" (inside stop()) or "stopped"
    \* the environment
    src,           \* the sender's file system: path -> [kind, data]
    nforeign,      \* requests made so far by clients other than the sender
    nevents,       \* user commands and environment events so far
    \* history
    posted,        \* the OutgoingTransfers whose /transfer/complete was posted
    early,         \* the keys client.cancel_transfer was called for while no
                   \* send of the key was running, and no send has begun since
    ret,           \* the last call of TransferManager.cancel_transfer: how
                   \* many calls there were, its queue_id, the value returned
    raised,        \* how many calls of TransferManager.queue_send have raised
    \* DiscoveryService
    disc,          \* "stopped" or "running" (DiscoveryService._running)
    peers,         \* DiscoveryService._peers: service instance name -> Peer
    emitted,       \* the callbacks the latest listener call scheduled
    last_event,    \* history: per service name, the kind of the last event
                   \* emitted for it, ever and since the latest start()
    \* StateManager
    states,        \* StateManager._states: transfer-id -> TransferState
    state_file,    \* transfers.json in the data directory
    clock,         \* time.time(), in ticks
    last_op        \* history: the latest operation on the state store

recvVars == <<incoming, live, disk, handlers, resp, queue>>
sendVars == <<outgoing, cur, spc, job, cancel_flags, posted, early>>
mgrVars == <<pending_sends, cancel_tasks, njobs, mgr>>
xferVars == <<recvVars, sendVars, mgrVars, src, nforeign, nevents, ret, raised>>
discVars == <<disc, peers, emitted, last_event>>
storeVars == <<states, state_file, clock, last_op>>
vars == <<xferVars, discVars, storeVars>>

RemoveAt(s, i) == [j \in 1..(Len(s) - 1) |-> IF j < i THEN s[j] ELSE s[j + 1]]

\* dict assignment / deletion on a function used as a dict.
Put(f, k, v) == [x \in DOMAIN f \cup {k} |-> IF x = k THEN v ELSE f[x]]
Del(f, k) == [x \in DOMAIN f \ {k} |-> f[x]]

\* Transfer-ids and queue-ids: str(uuid4())[:8], fresh each time.
Tid(n) == <<"t", n>>
Qid(n) == <<"q", n>>
\* A missing id (None, or the empty transfer_id of a new OutgoingTransfer).
NoId == <<"t", 0>>

(***************************************************************************)
(* Requests.  A request is posted (pc "sent"), arrives at its handler, and *)
(* the handler then runs to its next await.  waiting says that the client  *)
(* that posted it is still waiting for the response.                       *)
(***************************************************************************)
InitReq(filename, size, hash, resume_id, w) ==
    [kind |-> "init", pc |-> "sent", waiting |-> w, tid |-> NoId, start |-> 0,
     body |-> <<>>,
     meta |-> [filename |-> filename, size |-> size, hash |-> hash,
               resume_id |-> resume_id]]

ChunkReq(tid, start, body, w) ==
    [kind |-> "chunk", pc |-> "sent", waiting |-> w, tid |-> tid,
     start |-> start, body |-> body, meta |-> None]

CompleteReq(tid, w) ==
    [kind |-> "complete", pc |-> "sent", waiting |-> w, tid |-> tid,
     start |-> 0, body |-> <<>>, meta |-> None]

CancelReq(tid, w) ==
    [kind |-> "cancel", pc |-> "sent", waiting |-> w, tid |-> tid,
     start |-> 0, body |-> <<>>, meta |-> None]

\* what: the endpoint that answered; for a 200 of /transfer/init the "status"
\* of the body ("resuming" or "ready").  received is the "received" key of
\* the 400 that refuses a chunk's position, hashes the expected_hash and
\* computed_hash of the 400 that reports a hash mismatch.
Response(status, what, tid, offset) ==
    [status |-> status, what |-> what, transfer_id |-> tid,
     resume_offset |-> offset, received |-> 0, hashes |-> <<>>]

\* {"error": "Invalid chunk position", "expected": .., "received": ..}, 400.
PositionError(tid, expected, received) ==
    [Response(400, "chunk", tid, expected) EXCEPT !.received = received]

\* {"error": "Hash mismatch ..", "expected_hash": .., "computed_hash": ..}, 400.
HashError(tid, expected_hash, computed_hash) ==
    [Response(400, "complete", tid, 0) EXCEPT
        !.hashes = <<expected_hash, computed_hash>>]

\* No response yet, and the outcome of a request that failed in transport
\* (aiohttp.ClientError, asyncio.TimeoutError).
NoResp == Response(0, "none", NoId, 0)
TransportError == Response(0, "error", NoId, 0)

\* The response reaches the client only if it still waits for it.
Reply(h, r) == resp' = IF h.waiting THEN r ELSE resp

(***************************************************************************)
(* TransferManager: the callbacks the receiver calls.                      *)
(***************************************************************************)
\* The QueuedTransfer of an incoming transfer.  outgoing is _outgoing (0: None).
\* The last three fields are history:
\*   was_cancelled  cancel_transfer has returned True for the entry
\*   mid_cancel     it did so while a chunk of the entry's own send was in
\*                  flight and a later chunk remained to be posted
\*   raised         send_path raised in the send worker for the entry's job
QueuedIncoming(tid, t) ==
    [id |-> tid, direction |-> "incoming", file_path |-> None,
     total_size |-> t.total_size, transferred_bytes |-> 0,
     status |-> "transferring", outgoing |-> 0, was_cancelled |-> FALSE,
     mid_cancel |-> FALSE, raised |-> FALSE]

OnIncomingStarted(q, tid, t) == Append(q, QueuedIncoming(tid, t))

OnIncomingProgress(q, tid, t) ==
    [i \in DOMAIN q |->
        IF q[i].id = tid
        THEN [q[i] EXCEPT !.transferred_bytes = t.received_bytes]
        ELSE q[i]]

OnIncomingCompleted(q, tid, t) ==
    [i \in DOMAIN q |->
        IF q[i].id = tid
        THEN [q[i] EXCEPT !.status = "completed",
                          !.transferred_bytes = t.total_size]
        ELSE q[i]]

OnIncomingFailed(q, tid) ==
    [i \in DOMAIN q |->
        IF q[i].id = tid THEN [q[i] EXCEPT !.status = "failed"] ELSE q[i]]

(***************************************************************************)
(* TransferServer._handle_init                                             *)
(***************************************************************************)
\* The conflict loop: the first of name, name_1, name_2, ... not on disk.
RECURSIVE FreeSuffix(_, _)
FreeSuffix(filename, n) ==
    IF FinalPath(filename, n) \in DOMAIN disk
    THEN FreeSuffix(filename, n + 1)
    ELSE n

\* The IncomingTransfer of a new transfer.  final is the conflict suffix of
\* final_path.  The last six fields are history, not fields of the class:
\*   writes           the (start, body) of every chunk appended to the temp file
\*   computed_hash    the computed_hash of the last /transfer/complete handled
\*   renamed          the temp file was renamed to final_path
\*   complete_status  the status /transfer/complete answered after finalizing
\*   deleted          DELETE /transfer/{id} answered {status: cancelled}
\*   live_at_stop     the transfer was in the map when stop() began
NewIncoming(m, n) ==
    [filename |-> m.filename, total_size |-> m.size, expected_hash |-> m.hash,
     received_bytes |-> 0, hasher |-> <<>>, completed |-> FALSE,
     error |-> None, final |-> n,
     writes |-> <<>>, computed_hash |-> NoHash, renamed |-> FALSE,
     complete_status |-> 0, deleted |-> FALSE, live_at_stop |-> FALSE]

\* `if not filename or not total_size`: a size of 0 is falsy.
MissingFields(m) == m.filename = None \/ m.size = 0

CanResume(m) ==
    /\ m.resume_id # NoId
    /\ m.resume_id \in live
    /\ incoming[m.resume_id].filename = m.filename
    /\ incoming[m.resume_id].total_size = m.size

\* From `await request.json()` to the await of aiofiles.open: the record is
\* registered, the temp file is not created yet.
InitArrive(h, rest) ==
    /\ h.kind = "init" /\ h.pc = "sent"
    /\ IF MissingFields(h.meta)
       THEN /\ Reply(h, Response(400, "init", NoId, 0))
            /\ handlers' = rest
            /\ UNCHANGED <<incoming, live>>
       ELSE IF CanResume(h.meta)
       THEN /\ Reply(h, Response(200, "resuming", h.meta.resume_id,
                                 incoming[h.meta.resume_id].received_bytes))
            /\ handlers' = rest
            /\ UNCHANGED <<incoming, live>>
       ELSE /\ Cardinality(DOMAIN incoming) < MaxTransfers
            /\ LET tid == Tid(Cardinality(DOMAIN incoming) + 1)
                   t == NewIncoming(h.meta, FreeSuffix(h.meta.filename, 0))
               IN /\ incoming' = Put(incoming, tid, t)
                  /\ live' = live \cup {tid}
                  /\ handlers' = Append(rest, [h EXCEPT !.pc = "create",
                                                        !.tid = tid])
            /\ UNCHANGED resp
    /\ UNCHANGED <<disk, queue>>

\* aiofiles.open(temp_path, "wb") creates or truncates the temp file; then the
\* started callback and the response.
InitCreate(i) ==
    LET h == handlers[i] IN
    /\ h.kind = "init" /\ h.pc = "create"
    /\ disk' = Put(disk, TempPath(h.tid), <<>>)
    /\ queue' = OnIncomingStarted(queue, h.tid, incoming[h.tid])
    /\ Reply(h, Response(200, "ready", h.tid, 0))
    /\ handlers' = RemoveAt(handlers, i)
    /\ UNCHANGED <<incoming, live>>

(***************************************************************************)
(* TransferServer._handle_chunk                                            *)
(***************************************************************************)
\* A receiver that accepts a chunk at any position.
BadPosition_Never(t, start) == FALSE

\* `if start_byte != transfer.received_bytes`
BadPosition(t, start) == start # t.received_bytes

\* Up to the first await (request.read()): the id and the position are
\* checked against the state of this moment.
ChunkArrive(h, rest) ==
    /\ h.kind = "chunk" /\ h.pc = "sent"
    /\ IF h.tid \notin live
       THEN /\ Reply(h, Response(400, "chunk", NoId, 0))
            /\ handlers' = rest
       ELSE IF BadPosition(incoming[h.tid], h.start)
       THEN /\ Reply(h, PositionError(h.tid, incoming[h.tid].received_bytes,
                                      h.start))
            /\ handlers' = rest
       ELSE /\ handlers' = Append(rest, [h EXCEPT !.pc = "read"])
            /\ UNCHANGED resp
    /\ UNCHANGED <<incoming, live, disk, queue>>

\* open(temp_path, "ab") creates the file when it is missing.
AppendFile(d, path, bytes) ==
    Put(d, path, (IF path \in DOMAIN d THEN d[path] ELSE <<>>) \o bytes)

\* request.read(), aiofiles.open(.., "ab") and f.write(chunk), up to the await
\* that closes the file.
ChunkWrite(i) ==
    LET h == handlers[i] IN
    /\ h.kind = "chunk" /\ h.pc = "read"
    /\ disk' = AppendFile(disk, TempPath(h.tid), h.body)
    /\ incoming' = [incoming EXCEPT
                       ![h.tid].writes = Append(@, <<h.start, h.body>>)]
    /\ handlers' = [handlers EXCEPT ![i].pc = "written"]
    /\ UNCHANGED <<live, resp, queue>>

\* A receiver that counts a full chunk for every request.
Received_FullChunk(t, chunk) ==
    [t EXCEPT !.received_bytes = @ + ChunkSize, !.hasher = @ \o chunk]

\* transfer.received_bytes += len(chunk); transfer.hasher.update(chunk)
Received(t, chunk) ==
    [t EXCEPT !.received_bytes = @ + Len(chunk), !.hasher = @ \o chunk]

\* After the file is closed: the progress is counted on the transfer object the
\* handler holds (whether or not it is still in the map), progress is emitted.
ChunkFinish(i) ==
    LET h == handlers[i]
        t == Received(incoming[h.tid], h.body)
    IN /\ h.kind = "chunk" /\ h.pc = "written"
       /\ incoming' = [incoming EXCEPT ![h.tid] = t]
       /\ queue' = OnIncomingProgress(queue, h.tid, t)
       /\ Reply(h, Response(200, "chunk", h.tid, t.received_bytes))
       /\ handlers' = RemoveAt(handlers, i)
       /\ UNCHANGED <<live, disk>>

(***************************************************************************)
(* TransferServer._handle_complete                                         *)
(***************************************************************************)
\* A receiver that finalizes whatever it has received.
Incomplete_Never(t) == FALSE

\* `if transfer.received_bytes != transfer.total_size`
Incomplete(t) == t.received_bytes # t.total_size

\* A receiver that skips the comparison of the hashes.
HashMismatch_Skipped(t) == FALSE

\* `if transfer.expected_hash and computed_hash != transfer.expected_hash`
HashMismatch(t) ==
    t.expected_hash # NoHash /\ Hexdigest(t.hasher) # t.expected_hash

\* temp_path.rename(final_path): replaces an existing final file.
Rename(d, from, to) == Del(Put(d, to, d[from]), from)

\* transfer.completed = True, the completed callback, del _transfers[id]
\* (a KeyError, so a 500, when the record is already gone).
Finalize(h, t, rest) ==
    LET status == IF h.tid \in live THEN 200 ELSE 500 IN
    /\ incoming' = [incoming EXCEPT ![h.tid] =
                       [t EXCEPT !.completed = TRUE,
                                 !.complete_status = status]]
    /\ queue' = OnIncomingCompleted(queue, h.tid, t)
    /\ live' = live \ {h.tid}
    /\ Reply(h, Response(status, "complete", h.tid, 0))
    /\ handlers' = rest

\* From `await request.json()` to the end, or to the await of the extraction.
CompleteArrive(h, rest) ==
    /\ h.kind = "complete" /\ h.pc = "sent"
    /\ IF h.tid \notin live
       THEN /\ Reply(h, Response(400, "complete", NoId, 0))
            /\ handlers' = rest
            /\ UNCHANGED <<incoming, live, disk, queue>>
       ELSE IF Incomplete(incoming[h.tid])
       THEN /\ Reply(h, Response(400, "complete", h.tid, 0))
            /\ handlers' = rest
            /\ UNCHANGED <<incoming, live, disk, queue>>
       ELSE LET t == [incoming[h.tid] EXCEPT
                        !.computed_hash = Hexdigest(incoming[h.tid].hasher)]
            IN
            IF HashMismatch(t)
            THEN /\ incoming' = [incoming EXCEPT
                                   ![h.tid] = [t EXCEPT !.error = "hash"]]
                 /\ queue' = OnIncomingFailed(queue, h.tid)
                 /\ disk' = Del(disk, TempPath(h.tid))
                 /\ Reply(h, HashError(h.tid, t.expected_hash, t.computed_hash))
                 /\ handlers' = rest
                 /\ UNCHANGED live
            ELSE IF TempPath(h.tid) \notin DOMAIN disk
            THEN \* rename and shutil.move both raise: the handler ends in a 500
                 /\ incoming' = [incoming EXCEPT ![h.tid] = t]
                 /\ Reply(h, Response(500, "complete", h.tid, 0))
                 /\ handlers' = rest
                 /\ UNCHANGED <<live, disk, queue>>
            ELSE LET r == [t EXCEPT !.renamed = TRUE] IN
                 /\ disk' = Rename(disk, TempPath(h.tid),
                                   FinalPath(t.filename, t.final))
                 /\ IF IsTarGz(t.filename)
                    THEN /\ incoming' = [incoming EXCEPT ![h.tid] = r]
                         /\ handlers' = Append(rest, [h EXCEPT !.pc = "extract"])
                         /\ UNCHANGED <<live, resp, queue>>
                    ELSE Finalize(h, r, rest)

\* _extract_tarball: on success the folder is extracted and the archive
\* removed; on any failure the archive is kept.
Extract(d, t) ==
    LET final == FinalPath(t.filename, t.final) IN
    IF final \in DOMAIN d /\ IsArchive(d[final])
    THEN Del(Put(d, ExtractedPath(t.filename), d[final]), final)
    ELSE d

CompleteFinish(i) ==
    LET h == handlers[i] IN
    /\ h.kind = "complete" /\ h.pc = "extract"
    /\ disk' = Extract(disk, incoming[h.tid])
    /\ Finalize(h, incoming[h.tid], RemoveAt(handlers, i))

(***************************************************************************)
(* TransferServer._handle_cancel (DELETE /transfer/{id}): no await inside. *)
(***************************************************************************)
\* A handler that answers {status: cancelled} and keeps the record.
CancelArrive_KeepsRecord(h, rest) ==
    /\ h.kind = "cancel" /\ h.pc = "sent"
    /\ IF h.tid \notin live
       THEN /\ Reply(h, Response(404, "cancel", NoId, 0))
            /\ UNCHANGED <<incoming, live, disk>>
       ELSE /\ disk' = Del(disk, TempPath(h.tid))
            /\ live' = live
            /\ incoming' = [incoming EXCEPT ![h.tid].deleted = TRUE]
            /\ Reply(h, Response(200, "cancel", h.tid, 0))
    /\ handlers' = rest
    /\ UNCHANGED queue

CancelArrive(h, rest) ==
    /\ h.kind = "cancel" /\ h.pc = "sent"
    /\ IF h.tid \notin live
       THEN /\ Reply(h, Response(404, "cancel", NoId, 0))
            /\ UNCHANGED <<incoming, live, disk>>
       ELSE /\ disk' = Del(disk, TempPath(h.tid))
            /\ live' = live \ {h.tid}
            /\ incoming' = [incoming EXCEPT ![h.tid].deleted = TRUE]
            /\ Reply(h, Response(200, "cancel", h.tid, 0))
    /\ handlers' = rest
    /\ UNCHANGED queue

(***************************************************************************)
(* TransferManager: the callbacks the sender calls.  A QueuedTransfer's    *)
(* _outgoing is kept as the index of the OutgoingTransfer in outgoing.     *)
(***************************************************************************)
\* `for queued in self._queue.values(): if <match>: ...; break`
\* matching: the indices of the entries that pass the test; 0 when none does.
FirstMatch(matching) ==
    IF matching = {} THEN 0
    ELSE CHOOSE i \in matching : \A j \in matching : i <= j

OnOutgoingStarted(q, k, t) ==
    LET i == FirstMatch({j \in DOMAIN q :
                            /\ q[j].file_path = t.file_path
                            /\ q[j].direction = "outgoing"})
    IN IF i = 0 THEN q
       ELSE [q EXCEPT ![i].outgoing = k, ![i].status = "connecting"]

OnOutgoingProgress(q, k, t) ==
    LET i == FirstMatch({j \in DOMAIN q : q[j].outgoing = k})
    IN IF i = 0 THEN q
       ELSE [q EXCEPT ![i].transferred_bytes = t.sent_bytes,
                      ![i].status = t.status]

OnOutgoingCompleted(q, k, t) ==
    LET i == FirstMatch({j \in DOMAIN q : q[j].outgoing = k})
    IN IF i = 0 THEN q
       ELSE [q EXCEPT ![i].status = "completed",
                      ![i].transferred_bytes = t.total_size]

OnOutgoingFailed(q, k) ==
    LET i == FirstMatch({j \in DOMAIN q : q[j].outgoing = k})
    IN IF i = 0 THEN q ELSE [q EXCEPT ![i].status = "failed"]

(***************************************************************************)
(* TransferManager: the commands.                                          *)
(***************************************************************************)
\* path.stat().st_size, or get_folder_size(path) for a folder.
PathSize(p) == IF src[p].kind = "dir" THEN Len(DirData) ELSE Len(src[p].data)

QueuedOutgoing(qid, p) ==
    [id |-> qid, direction |-> "outgoing", file_path |-> p,
     total_size |-> PathSize(p), transferred_bytes |-> 0,
     status |-> "pending", outgoing |-> 0, was_cancelled |-> FALSE,
     mid_cancel |-> FALSE, raised |-> FALSE]

\* A stat() that succeeds on every path.
StatFails_Never(p) == FALSE

\* path.is_dir() is False for a path that does not exist, and path.stat()
\* then raises FileNotFoundError.
StatFails(p) == src[p].kind = "missing"

\* The size is computed before the entry is made and the job is put.
QueueSend(p) ==
    /\ mgr = "running"
    /\ IF StatFails(p)
       THEN /\ raised' = raised + 1
            /\ UNCHANGED <<queue, pending_sends, njobs>>
       ELSE /\ queue' = Append(queue, QueuedOutgoing(Qid(njobs + 1), p))
            /\ pending_sends' = Append(pending_sends,
                                  [queue_id |-> Qid(njobs + 1), path |-> p])
            /\ njobs' = njobs + 1
            /\ UNCHANGED raised
    /\ UNCHANGED <<incoming, live, disk, handlers, resp, sendVars,
                   cancel_tasks, mgr, src, nforeign>>

\* A cancel_transfer that does not look at the status.
CanCancel_Always(e) == TRUE

\* `if transfer.status == "completed": return False`
CanCancel(e) == e.status # "completed"

\* The queue-ids a caller can pass: those of the entries made so far (entries
\* since removed included) and one that was never given out.
QueueIds == {Qid(n) : n \in 1..(njobs + 1)} \cup DOMAIN incoming

Returned(qid, value) == [calls |-> ret.calls + 1, id |-> qid, value |-> value]

\* The send worker is running the job of entry e, a chunk of it is posted and
\* not yet answered, and at least one more chunk comes after it.
MidTransfer(e) ==
    /\ e.direction = "outgoing"
    /\ cur # 0 /\ e.outgoing = cur /\ job.queue_id = e.id
    /\ spc \in {"chunk", "backoff"}
    /\ outgoing[cur].sent_bytes + Len(job.chunk) < outgoing[cur].total_size

\* cancel_transfer(queue_id).  The flag is not set here: a task is created
\* that will set it.
CancelTransfer(qid) ==
    /\ mgr = "running"
    /\ LET i == FirstMatch({j \in DOMAIN queue : queue[j].id = qid}) IN
       IF i = 0 \/ ~CanCancel(queue[i])
       THEN /\ ret' = Returned(qid, FALSE)
            /\ UNCHANGED <<queue, cancel_tasks>>
       ELSE /\ ret' = Returned(qid, TRUE)
            /\ queue' = [queue EXCEPT
                            ![i].status = "cancelled",
                            ![i].was_cancelled = TRUE,
                            ![i].mid_cancel = @ \/ MidTransfer(queue[i])]
            /\ cancel_tasks' =
                  IF queue[i].outgoing # 0 /\ queue[i].file_path # None
                  THEN cancel_tasks \cup {queue[i].file_path}
                  ELSE cancel_tasks
    /\ UNCHANGED <<incoming, live, disk, handlers, resp, sendVars,
                   pending_sends, njobs, mgr, src, nforeign>>

\* TransferClient.cancel_transfer, run as its own task.
CancelTask(p) ==
    /\ p \in cancel_tasks
    /\ cancel_tasks' = cancel_tasks \ {p}
    /\ cancel_flags' = IF p \in DOMAIN cancel_flags
                       THEN [cancel_flags EXCEPT ![p] = TRUE]
                       ELSE cancel_flags
    /\ early' = IF p \in DOMAIN cancel_flags THEN early ELSE early \cup {p}
    /\ UNCHANGED <<recvVars, outgoing, cur, spc, job, posted, pending_sends,
                   njobs, mgr, src, nforeign>>

\* A test that leaves the cancelled entries out.
Terminal_NoCancelled(status) == status \in {"completed", "failed"}

Terminal(status) == status \in {"completed", "failed", "cancelled"}

ClearCompleted ==
    /\ mgr = "running"
    /\ \E i \in DOMAIN queue : Terminal(queue[i].status)
    /\ queue' = SelectSeq(queue, LAMBDA e : ~Terminal(e.status))
    /\ UNCHANGED <<incoming, live, disk, handlers, resp, sendVars, mgrVars,
                   src, nforeign>>

(***************************************************************************)
(* TransferClient.send_path / _send_folder / send_file, run by the send    *)
(* worker.  spc names the await the worker is suspended at:                *)
(*   idle      _pending_sends.get()                                        *)
(*   packing   run_in_executor(_create_tarball)                            *)
(*   hashing   get_file_hash_async                                         *)
(*   init      the POST of /transfer/init                                  *)
(*   open      aiofiles.open / f.seek in _send_chunks                      *)
(*   read      f.read(chunk_size), after the cancellation check            *)
(*   chunk     the POST of /transfer/chunk                                 *)
(*   backoff   asyncio.sleep(retry_delay) and the re-read                  *)
(*   closing   the close of the source file when _send_chunks is left      *)
(*   complete  the POST of /transfer/complete                              *)
(*   stopped   the worker has ended                                        *)
(***************************************************************************)
\* retry_delay is the local variable of _send_chunks.  The last three fields
\* are history of the chunk loop:
\*   attempts    how many times the current chunk was posted
\*   waits       the sleeps before the retries of the current chunk
\*   prev_waits  the sleeps before the retries of the chunk before it
NoJob == [queue_id |-> NoId, path |-> None, resume_id |-> NoId,
          folder |-> FALSE, chunk |-> <<>>,
          retry_delay |-> InitialRetryDelay,
          attempts |-> 0, waits |-> <<>>, prev_waits |-> <<>>,
          range |-> <<>>]

\* The bytes of the file send_file reads: the packed archive or the source.
SourceData == IF job.folder THEN DataD ELSE src[job.path].data

\* transfer_key = f"{peer_url}:{key_path}", one peer.
TransferKey == job.path

\* The OutgoingTransfer send_file creates.  The last six fields are history:
\*   resumed         the init response carried the resume_id the send was
\*                   started with
\*   queue_id        the queue-id of the job the send worker runs the send for
\*   failed_emitted  how many times on_transfer_failed was called for it
\*   early_cancel    client.cancel_transfer was called for the key before
\*                   send_file began
\*   offset          sent_bytes when _send_chunks began
\*   ranges          the Content-Range (start, end, total) of every chunk
\*                   POST that was answered 200, in order
NewOutgoing(file_path, original_path, size) ==
    [file_path |-> file_path, original_path |-> original_path,
     transfer_id |-> NoId, total_size |-> size, sent_bytes |-> 0,
     file_hash |-> NoHash, status |-> "connecting", retry_count |-> 0,
     error |-> None,
     resumed |-> FALSE, queue_id |-> NoId, failed_emitted |-> 0,
     early_cancel |-> FALSE, offset |-> 0, ranges |-> <<>>]

\* send_file up to the await of the hash: the transfer is created and
\* registered under its key with the flag cleared, so the early cancellation
\* check that follows never fires, and the status goes PENDING -> CONNECTING.
StartSendFile(j, file_path, size) ==
    /\ outgoing' = Append(outgoing,
                          [NewOutgoing(file_path, j.path, size)
                              EXCEPT !.queue_id = j.queue_id,
                                     !.early_cancel = j.path \in early])
    /\ cur' = Len(outgoing) + 1
    /\ cancel_flags' = Put(cancel_flags, j.path, FALSE)
    /\ early' = early \ {j.path}
    /\ job' = j
    /\ spc' = "hashing"

\* A worker that skips only the jobs whose entry is there and cancelled.
SkipJob_CancelledOnly(q, qid) ==
    \E i \in DOMAIN q : q[i].id = qid /\ q[i].status = "cancelled"

\* `if queue_id not in self._queue: continue` / `status == "cancelled"`
SkipJob(q, qid) ==
    \/ \A i \in DOMAIN q : q[i].id # qid
    \/ \E i \in DOMAIN q : q[i].id = qid /\ q[i].status = "cancelled"

\* A worker whose loop ends when send_path raises.
WorkerAfterError_Stops == "stopped"

\* `except Exception as e: print(...)` inside `while True`: the worker is
\* back at `await self._pending_sends.get()`.
WorkerAfterError == "idle"

\* _send_worker: one job is taken; send_path runs to its first await, or
\* raises FileNotFoundError when the path no longer exists.
Dequeue ==
    /\ spc = "idle" /\ mgr = "running"
    /\ pending_sends # <<>>
    /\ pending_sends' = Tail(pending_sends)
    /\ LET h == Head(pending_sends)
           j == [NoJob EXCEPT !.queue_id = h.queue_id, !.path = h.path]
       IN IF SkipJob(queue, h.queue_id)
          THEN UNCHANGED <<sendVars, queue>>
          ELSE IF src[h.path].kind = "missing"
          THEN /\ spc' = WorkerAfterError
               /\ queue' = [i \in DOMAIN queue |->
                               IF queue[i].id = h.queue_id
                               THEN [queue[i] EXCEPT !.raised = TRUE]
                               ELSE queue[i]]
               /\ UNCHANGED <<outgoing, cur, job, cancel_flags, posted,
                              early>>
          ELSE IF src[h.path].kind = "dir"
          THEN /\ job' = [j EXCEPT !.folder = TRUE]
               /\ spc' = "packing"
               /\ UNCHANGED <<outgoing, cur, cancel_flags, posted, early,
                              queue>>
          ELSE /\ StartSendFile(j, h.path, Len(src[h.path].data))
               /\ UNCHANGED <<posted, queue>>
    /\ UNCHANGED <<incoming, live, disk, handlers, resp, cancel_tasks, njobs,
                   mgr, src, nforeign>>

PackDone ==
    /\ spc = "packing"
    /\ StartSendFile(job, TarballPath(job.path), Len(DataD))
    /\ UNCHANGED <<recvVars, posted, mgrVars, src, nforeign>>

\* The hash is known: started is emitted and /transfer/init is posted.
HashDone ==
    /\ spc = "hashing"
    /\ LET t == [outgoing[cur] EXCEPT !.file_hash = Hexdigest(SourceData)] IN
       /\ outgoing' = [outgoing EXCEPT ![cur] = t]
       /\ queue' = OnOutgoingStarted(queue, cur, t)
       /\ handlers' = Append(handlers,
              InitReq(t.file_path, t.total_size, t.file_hash, job.resume_id,
                      TRUE))
    /\ spc' = "init"
    /\ UNCHANGED <<incoming, live, disk, resp, cur, job, cancel_flags, posted, early,
                   mgrVars, src, nforeign>>

\* A send_file whose `finally` leaves the transfer in _active_transfers.
EndSend_KeepsActive(t) ==
    /\ outgoing' = [outgoing EXCEPT
                      ![cur] = IF job.folder
                               THEN [t EXCEPT !.file_path = job.path] ELSE t]
    /\ cancel_flags' = cancel_flags
    /\ cur' = 0
    /\ job' = NoJob
    /\ spc' = "idle"

\* The `finally` of send_file and the return to the worker's loop; after a
\* folder send _send_folder puts the folder path on the transfer.
EndSend(t) ==
    /\ outgoing' = [outgoing EXCEPT
                      ![cur] = IF job.folder
                               THEN [t EXCEPT !.file_path = job.path] ELSE t]
    /\ cancel_flags' = Del(cancel_flags, TransferKey)
    /\ cur' = 0
    /\ job' = NoJob
    /\ spc' = "idle"

\* transfer.status = FAILED, transfer.error = ..., on_transfer_failed(...)
Failed(t, error) ==
    [t EXCEPT !.status = "failed", !.error = error,
              !.failed_emitted = @ + 1]

InitResp ==
    /\ spc = "init" /\ resp # NoResp
    /\ resp' = NoResp
    /\ IF resp.status # 200
       THEN /\ EndSend(Failed(outgoing[cur], "init"))
            /\ queue' = OnOutgoingFailed(queue, cur)
       ELSE /\ outgoing' = [outgoing EXCEPT
                 ![cur].transfer_id = resp.transfer_id,
                 ![cur].sent_bytes = IF resp.resume_offset > 0
                                      THEN resp.resume_offset ELSE @,
                 ![cur].offset = IF resp.resume_offset > 0
                                  THEN resp.resume_offset
                                  ELSE outgoing[cur].sent_bytes,
                 ![cur].status = "transferring",
                 ![cur].resumed = /\ job.resume_id # NoId
                                  /\ resp.transfer_id = job.resume_id]
            /\ job' = [job EXCEPT !.retry_delay = InitialRetryDelay]
            /\ spc' = "open"
            /\ UNCHANGED <<queue, cur, cancel_flags>>
    /\ UNCHANGED <<incoming, live, disk, handlers, posted, early, mgrVars, src,
                   nforeign>>

\* The top of the chunk loop for transfer t: leave the loop when all is sent,
\* become CANCELLED when the flag is set, read the next chunk otherwise.
LoopTop(t) ==
    IF t.sent_bytes < t.total_size
    THEN IF cancel_flags[TransferKey]
         THEN /\ outgoing' = [outgoing EXCEPT
                                 ![cur] = [t EXCEPT !.status = "cancelled"]]
              /\ spc' = "closing"
         ELSE /\ outgoing' = [outgoing EXCEPT ![cur] = t]
              /\ spc' = "read"
    ELSE /\ outgoing' = [outgoing EXCEPT ![cur] = t]
         /\ spc' = "closing"

OpenDone ==
    /\ spc = "open"
    /\ LoopTop(outgoing[cur])
    /\ UNCHANGED <<recvVars, cur, job, cancel_flags, posted, early, mgrVars, src,
                   nforeign>>

Min(a, b) == IF a < b THEN a ELSE b

\* f.read(chunk_size) at file position pos.
ReadChunk(data, pos) ==
    IF pos >= Len(data) THEN <<>>
    ELSE SubSeq(data, pos + 1, Min(pos + ChunkSize, Len(data)))

\* What the chunk loop posts from offset pos on, when nothing interrupts it:
\* the (start, body) of every chunk.
RECURSIVE ChunksOf(_, _)
ChunksOf(data, pos) ==
    IF pos >= Len(data) THEN <<>>
    ELSE <<<<pos, ReadChunk(data, pos)>>>>
            \o ChunksOf(data, pos + Len(ReadChunk(data, pos)))

\* A Content-Range whose end is one past the last byte.
ChunkEnd_Exclusive(start, chunk) == start + Len(chunk)

\* chunk_end = transfer.sent_bytes + len(chunk) - 1
ChunkEnd(start, chunk) == start + Len(chunk) - 1

\* The chunk is read and posted with Content-Range start = sent_bytes; the
\* headers are built once and reused by the retries.
ReadDone ==
    /\ spc = "read"
    /\ LET chunk == ReadChunk(SourceData, outgoing[cur].sent_bytes) IN
       IF chunk = <<>>
       THEN /\ spc' = "closing"
            /\ UNCHANGED <<handlers, job>>
       ELSE /\ handlers' = Append(handlers,
                   ChunkReq(outgoing[cur].transfer_id,
                            outgoing[cur].sent_bytes, chunk, TRUE))
            /\ job' = [job EXCEPT !.chunk = chunk, !.attempts = 1,
                                  !.prev_waits = job.waits, !.waits = <<>>,
                                  !.range = <<outgoing[cur].sent_bytes,
                                              ChunkEnd(outgoing[cur].sent_bytes,
                                                       chunk),
                                              outgoing[cur].total_size>>]
            /\ spc' = "chunk"
    /\ UNCHANGED <<incoming, live, disk, resp, queue, outgoing, cur,
                   cancel_flags, posted, early, mgrVars, src, nforeign>>

\* `if attempt == self.max_retries`: the attempt number is retry_count.
RetriesExhausted(t) == t.retry_count = MaxRetries

\* A backoff that does not grow.
NextDelay_Constant(d) == d

\* retry_delay = min(retry_delay * 2, MAX_RETRY_DELAY)
NextDelay(d) == Min(d * 2, MaxRetryDelay)

\* A sender that counts a whole chunk size for every chunk.
Advance_FullChunk(t, chunk) == t.sent_bytes + ChunkSize

\* transfer.sent_bytes += len(chunk)
Advance(t, chunk) == t.sent_bytes + Len(chunk)

ChunkResp ==
    /\ spc = "chunk" /\ resp # NoResp
    /\ resp' = NoResp
    /\ IF resp.status = 200
       THEN LET t == [outgoing[cur] EXCEPT
                         !.retry_count = 0,
                         !.sent_bytes = Advance(outgoing[cur], job.chunk),
                         !.ranges = Append(@, job.range)]
            IN /\ queue' = OnOutgoingProgress(queue, cur, t)
               /\ job' = [job EXCEPT !.retry_delay = InitialRetryDelay]
               /\ LoopTop([t EXCEPT !.status = "transferring"])
       ELSE LET t == [outgoing[cur] EXCEPT !.retry_count = @ + 1,
                                           !.status = "retrying"]
            IN IF RetriesExhausted(outgoing[cur])
               THEN /\ outgoing' = [outgoing EXCEPT
                                      ![cur] = Failed(t, "max_retries")]
                    /\ queue' = OnOutgoingFailed(queue, cur)
                    /\ spc' = "closing"
                    /\ UNCHANGED job
               ELSE \* asyncio.sleep(retry_delay) begins
                    /\ outgoing' = [outgoing EXCEPT ![cur] = t]
                    /\ job' = [job EXCEPT
                                  !.waits = Append(@, job.retry_delay),
                                  !.retry_delay = NextDelay(@)]
                    /\ spc' = "backoff"
                    /\ UNCHANGED queue
    /\ UNCHANGED <<incoming, live, disk, handlers, cur, cancel_flags,
                   posted, early, mgrVars, src, nforeign>>

\* After the sleep: seek back to the chunk's start, read it again and post it
\* with the same headers.
BackoffDone ==
    /\ spc = "backoff"
    /\ LET chunk == ReadChunk(SourceData, outgoing[cur].sent_bytes) IN
       /\ handlers' = Append(handlers,
              ChunkReq(outgoing[cur].transfer_id, outgoing[cur].sent_bytes,
                       chunk, TRUE))
       /\ job' = [job EXCEPT !.chunk = chunk, !.attempts = @ + 1]
    /\ spc' = "chunk"
    /\ UNCHANGED <<incoming, live, disk, resp, queue, outgoing, cur,
                   cancel_flags, posted, early, mgrVars, src, nforeign>>

\* _send_chunks has returned: /transfer/complete is posted only when the
\* status is still TRANSFERRING.
CloseDone ==
    /\ spc = "closing"
    /\ IF outgoing[cur].status = "transferring"
       THEN /\ outgoing' = [outgoing EXCEPT ![cur].status = "verifying"]
            /\ handlers' = Append(handlers,
                   CompleteReq(outgoing[cur].transfer_id, TRUE))
            /\ posted' = posted \cup {cur}
            /\ UNCHANGED early
            /\ spc' = "complete"
            /\ UNCHANGED <<cur, job, cancel_flags>>
       ELSE /\ EndSend(outgoing[cur])
            /\ UNCHANGED <<handlers, posted, early>>
    /\ UNCHANGED <<incoming, live, disk, resp, queue, mgrVars, src, nforeign>>

CompleteResp ==
    /\ spc = "complete" /\ resp # NoResp
    /\ resp' = NoResp
    /\ IF resp.status = 200
       THEN /\ EndSend([outgoing[cur] EXCEPT !.status = "completed"])
            /\ queue' = OnOutgoingCompleted(queue, cur, outgoing[cur])
       ELSE /\ EndSend(Failed(outgoing[cur], "verify"))
            /\ queue' = OnOutgoingFailed(queue, cur)
    /\ UNCHANGED <<incoming, live, disk, handlers, posted, early, mgrVars, src,
                   nforeign>>

\* A program calls client.send_file(path, peer_url, resume_id) itself, with no
\* resume_id or with the transfer_id of an earlier send of the file.
SendFile(p, r) ==
    /\ spc = "idle" /\ cur = 0 /\ mgr = "running"
    /\ src[p].kind = "file"
    /\ r \in {NoId} \cup {outgoing[k].transfer_id : k \in DOMAIN outgoing}
    /\ StartSendFile([NoJob EXCEPT !.path = p, !.resume_id = r], p,
                     Len(src[p].data))
    /\ UNCHANGED <<recvVars, posted, mgrVars, src, nforeign>>

\* A program calls client.send_path(path, peer_url) itself for a folder:
\* _send_folder packs it, without a resume_id.
SendFolder(p) ==
    /\ spc = "idle" /\ cur = 0 /\ mgr = "running"
    /\ src[p].kind = "dir"
    /\ job' = [NoJob EXCEPT !.path = p, !.folder = TRUE]
    /\ spc' = "packing"
    /\ UNCHANGED <<recvVars, outgoing, cur, cancel_flags, posted, early,
                   mgrVars, src, nforeign>>

\* A program calls client.cancel_transfer(path, peer_url) itself: the flag is
\* set when the key is registered, and nothing happens otherwise.
ClientCancel(p) ==
    /\ mgr = "running"
    /\ cancel_flags' = IF p \in DOMAIN cancel_flags
                       THEN [cancel_flags EXCEPT ![p] = TRUE]
                       ELSE cancel_flags
    /\ early' = IF p \in DOMAIN cancel_flags THEN early ELSE early \cup {p}
    /\ UNCHANGED <<recvVars, outgoing, cur, spc, job, posted, mgrVars, src,
                   nforeign>>

(***************************************************************************)
(* Transport failures and task cancellation.                               *)
(***************************************************************************)
\* The client gives up on its request: one not yet arrived never arrives, a
\* handler already running goes on without a client.
Orphaned(hs) ==
    LET kept == SelectSeq(hs, LAMBDA h : ~(h.waiting /\ h.pc = "sent"))
    IN [i \in DOMAIN kept |-> [kept[i] EXCEPT !.waiting = FALSE]]

\* session.post raises aiohttp.ClientError or asyncio.TimeoutError.
TransportFail ==
    /\ spc \in {"init", "chunk", "complete"}
    /\ resp # TransportError
    /\ resp' = TransportError
    /\ handlers' = Orphaned(handlers)
    /\ UNCHANGED <<incoming, live, disk, queue, sendVars, mgrVars, src,
                   nforeign>>

\* `except asyncio.CancelledError: transfer.status = CANCELLED; raise`, then
\* the `finally`, at whatever await send_file is suspended.
TaskCancelled(t) == [t EXCEPT !.status = "cancelled"]

\* The task that runs send_file is cancelled by its owner: the request in
\* flight is abandoned and send_file ends with status CANCELLED.
CancelSend ==
    /\ cur # 0 /\ mgr = "running"
    /\ outgoing' = [outgoing EXCEPT ![cur] = TaskCancelled(@)]
    /\ cancel_flags' = Del(cancel_flags, TransferKey)
    /\ cur' = 0
    /\ job' = NoJob
    /\ spc' = "idle"
    /\ resp' = NoResp
    /\ handlers' = Orphaned(handlers)
    /\ UNCHANGED <<incoming, live, disk, queue, posted, early, mgrVars, src, nforeign>>

\* TransferServer.stop, first part: the temp files of the live transfers are
\* unlinked.
RECURSIVE DelAll(_, _)
DelAll(d, paths) ==
    IF paths = {} THEN d
    ELSE LET p == CHOOSE x \in paths : TRUE IN DelAll(Del(d, p), paths \ {p})

\* TransferManager.stop up to the awaits inside server.stop(): the send task
\* is cancelled and awaited, then the server unlinks its temp files.
Stop ==
    /\ mgr = "running"
    /\ mgr' = "stopping"
    /\ spc' = "stopped"
    /\ IF cur # 0
       THEN /\ outgoing' = [outgoing EXCEPT ![cur] = TaskCancelled(@)]
            /\ cancel_flags' = Del(cancel_flags, TransferKey)
       ELSE UNCHANGED <<outgoing, cancel_flags>>
    /\ cur' = 0
    /\ job' = NoJob
    /\ resp' = NoResp
    /\ handlers' = Orphaned(handlers)
    /\ disk' = DelAll(disk, {TempPath(tid) : tid \in live})
    /\ incoming' = [tid \in DOMAIN incoming |->
                       [incoming[tid] EXCEPT !.live_at_stop = tid \in live]]
    /\ UNCHANGED <<live, queue, posted, early, pending_sends, cancel_tasks,
                   njobs, src, nforeign>>

\* server.stop, after site.stop() and runner.cleanup(): handlers still running
\* have been cancelled; self._transfers.clear().
StopDone ==
    /\ mgr = "stopping"
    /\ mgr' = "stopped"
    /\ live' = {}
    /\ handlers' = <<>>
    /\ UNCHANGED <<incoming, disk, resp, queue, sendVars, pending_sends,
                   cancel_tasks, njobs, src, nforeign>>

(***************************************************************************)
(* The environment.                                                        *)
(***************************************************************************)
\* The source file is rewritten in place (same size) while it is being sent.
ModifyFile ==
    /\ src["f"].data = DataF
    /\ cur # 0
    /\ src' = [src EXCEPT !["f"].data = DataF2]
    /\ UNCHANGED <<recvVars, sendVars, mgrVars, nforeign>>

\* A queued path is deleted between queue_send and the worker's dequeue.
RemovePath(p) ==
    /\ src[p].kind # "missing"
    /\ \E i \in DOMAIN pending_sends : pending_sends[i].path = p
    /\ ~(spc # "idle" /\ job.path = p)
    /\ src' = [src EXCEPT ![p].kind = "missing"]
    /\ UNCHANGED <<recvVars, sendVars, mgrVars, nforeign>>

\* The transfer-ids a client can know: those an init response has carried.
Known ==
    {tid \in DOMAIN incoming :
        \A i \in DOMAIN handlers :
            ~(handlers[i].kind = "init" /\ handlers[i].tid = tid)}

\* Requests of other HTTP clients; their handlers start at once.
ForeignInits ==
    {InitReq(m[1], m[2], m[3], r, FALSE) :
        m \in {<<"f", Len(DataF), Hexdigest(DataF)>>,
               <<"f", Len(DataF), NoHash>>,
               <<"d.tar.gz", Len(DataD), Hexdigest(DataD)>>,
               <<"f", 0, Hexdigest(<<>>)>>},
        r \in {NoId} \cup (live \cap Known)}

ForeignBodies == {<<1, 2>>, <<3>>, <<4, 5>>, <<1, 2, 3>>}

ForeignChunks ==
    {ChunkReq(tid, start, body, FALSE) :
        tid \in Known, start \in {0, ChunkSize},
        body \in ForeignBodies}

ForeignInit ==
    /\ nforeign < MaxForeign /\ mgr = "running"
    /\ nforeign' = nforeign + 1
    /\ \E h \in ForeignInits : InitArrive(h, handlers)
    /\ UNCHANGED <<sendVars, mgrVars, src>>

ForeignChunk ==
    /\ nforeign < MaxForeign /\ mgr = "running"
    /\ nforeign' = nforeign + 1
    /\ \E h \in ForeignChunks : ChunkArrive(h, handlers)
    /\ UNCHANGED <<sendVars, mgrVars, src>>

ForeignComplete ==
    /\ nforeign < MaxForeign /\ mgr = "running"
    /\ nforeign' = nforeign + 1
    /\ \E tid \in Known :
          CompleteArrive(CompleteReq(tid, FALSE), handlers)
    /\ UNCHANGED <<sendVars, mgrVars, src>>

ForeignCancel ==
    /\ nforeign < MaxForeign /\ mgr = "running"
    /\ nforeign' = nforeign + 1
    /\ \E tid \in live \cap Known :
          CancelArrive(CancelReq(tid, FALSE), handlers)
    /\ UNCHANGED <<sendVars, mgrVars, src>>

(***************************************************************************)
(* The receiver's steps on the requests in flight.                         *)
(***************************************************************************)
Arrive ==
    /\ mgr = "running"
    /\ \E i \in DOMAIN handlers :
          LET h == handlers[i]
              rest == RemoveAt(handlers, i)
          IN \/ InitArrive(h, rest)
             \/ ChunkArrive(h, rest)
             \/ CompleteArrive(h, rest)
             \/ CancelArrive(h, rest)
    /\ UNCHANGED <<sendVars, mgrVars, src, nforeign>>

HandlerStep ==
    /\ \E i \in DOMAIN handlers :
          \/ InitCreate(i)
          \/ ChunkWrite(i)
          \/ ChunkFinish(i)
          \/ CompleteFinish(i)
    /\ UNCHANGED <<sendVars, mgrVars, src, nforeign>>

(***************************************************************************)
(* DiscoveryService: the table of peers kept by the mDNS listener.         *)
(***************************************************************************)
\* This machine's address (get_local_ip()) and another machine's.
LocalIp == "10.0.0.1"
OtherIp == "10.0.0.2"
DEFAULT_PORT == 8765

\* Service instance names browsed on the network.
Names == {"alpha", "beta"}

\* What zc.get_service_info(type_, name) returns: nothing (found = FALSE),
\* or a ServiceInfo with its IPv4 addresses, its port and, perhaps, a
\* "device" property.
ServiceInfos ==
    [found : BOOLEAN,
     addresses : {<<>>, <<LocalIp>>, <<OtherIp>>, <<OtherIp, LocalIp>>},
     port : {DEFAULT_PORT, DEFAULT_PORT + 1},
     device : {None, "laptop"}]

\* Peer(name=info.properties.get(b"device", name), address, port, device_id).
NewPeer(name, info) ==
    [name |-> IF info.device # None THEN info.device ELSE name,
     address |-> info.addresses[1],
     port |-> info.port,
     device_id |-> name]

PeerAdded(peer) == [kind |-> "added", peer |-> peer]
PeerRemoved(peer) == [kind |-> "removed", peer |-> peer]

\* An _add_peer that stores and announces the peer whether or not the name
\* is in the table.
AddPeer_Upsert(d, name, info) ==
    IF info.addresses = <<>>
    THEN d
    ELSE IF info.addresses[1] = LocalIp /\ info.port = DEFAULT_PORT
    THEN d
    ELSE [peers |-> Put(d.peers, name, NewPeer(name, info)),
          emitted |-> Append(d.emitted, PeerAdded(NewPeer(name, info)))]

\* _add_peer on the table and callbacks d = [peers, emitted].
AddPeer(d, name, info) ==
    IF info.addresses = <<>>
    THEN d
    ELSE IF info.addresses[1] = LocalIp /\ info.port = DEFAULT_PORT
    THEN d
    ELSE IF name \notin DOMAIN d.peers
    THEN [peers |-> Put(d.peers, name, NewPeer(name, info)),
          emitted |-> Append(d.emitted, PeerAdded(NewPeer(name, info)))]
    ELSE d

\* _remove_peer.
RemovePeer(d, name) ==
    IF name \in DOMAIN d.peers
    THEN [peers |-> Del(d.peers, name),
          emitted |-> Append(d.emitted, PeerRemoved(d.peers[name]))]
    ELSE d

\* The table at the start of a listener call.
Table == [peers |-> peers, emitted |-> <<>>]

\* The kind of the last callback in es for the peer of service name n, or
\* prev when there is none.
RECURSIVE LastKind(_, _, _)
LastKind(prev, es, n) ==
    IF es = <<>> THEN prev
    ELSE LastKind(IF Head(es).peer.device_id = n THEN Head(es).kind ELSE prev,
                  Tail(es), n)

SetTable(d) ==
    /\ peers' = d.peers
    /\ emitted' = d.emitted
    /\ last_event' = [n \in Names |->
                         [ever |-> LastKind(last_event[n].ever, d.emitted, n),
                          run |-> LastKind(last_event[n].run, d.emitted, n)]]
    /\ UNCHANGED <<disc, xferVars, storeVars>>

\* DiscoveryService.start(): the browser starts delivering events.
DiscStart ==
    /\ disc = "stopped"
    /\ disc' = "running"
    /\ last_event' = [n \in Names |-> [last_event[n] EXCEPT !.run = None]]
    /\ UNCHANGED <<peers, emitted, xferVars, storeVars>>

\* DiscoveryService.stop(): the browser is cancelled and the table cleared.
DiscStop ==
    /\ disc = "running"
    /\ disc' = "stopped"
    /\ peers' = <<>>
    /\ UNCHANGED <<emitted, last_event, xferVars, storeVars>>

\* _PeerListener.add_service.
AddService(name, info) ==
    /\ disc = "running"
    /\ SetTable(IF info.found THEN AddPeer(Table, name, info) ELSE Table)

\* _PeerListener.remove_service.
RemoveService(name) ==
    /\ disc = "running"
    /\ SetTable(RemovePeer(Table, name))

\* _PeerListener.update_service: remove, then add again.
UpdateService(name, info) ==
    /\ disc = "running"
    /\ SetTable(IF info.found
                THEN AddPeer(RemovePeer(Table, name), name, info)
                ELSE RemovePeer(Table, name))

(***************************************************************************)
(* StateManager: the persisted transfer states.                            *)
(***************************************************************************)
\* STATE_CLEANUP_AGE is 86400 s in the code; the clock here counts ticks.
STATE_CLEANUP_AGE == 1
MaxClock == 3

StateIds == {"s1", "s2"}
SentBytes == {1}

\* transfers.json: absent, unreadable as JSON, or a list of states.
NoFile == [exists |-> FALSE, valid |-> TRUE, transfers |-> <<>>]
Written(d) == [exists |-> TRUE, valid |-> TRUE, transfers |-> d]

\* The latest operation: its name, its transfer_id and the ids its expiry
\* sweep deleted.
Op(name, tid, swept) == [name |-> name, tid |-> tid, swept |-> swept]

\* TransferState.is_expired.
IsExpired_AtAge(st) == (clock - st.updated_at) >= STATE_CLEANUP_AGE
IsExpired(st) == (clock - st.updated_at) > STATE_CLEANUP_AGE

Expired(d) == {tid \in DOMAIN d : IsExpired(d[tid])}

\* _cleanup_expired.
CleanupExpired(d) == [tid \in DOMAIN d \ Expired(d) |-> d[tid]]

\* _save: sweep, then write the file; an IOError is swallowed.
Save(d, name, tid) ==
    /\ states' = CleanupExpired(d)
    /\ \/ state_file' = Written(CleanupExpired(d))
       \/ state_file' = state_file
    /\ last_op' = Op(name, tid, Expired(d))
    /\ UNCHANGED <<clock, xferVars, discVars>>

\* A call that returns without touching the store.
NoWrite(name, tid) ==
    /\ last_op' = Op(name, tid, {})
    /\ UNCHANGED <<states, state_file, clock, xferVars, discVars>>

\* StateManager(): _load reads the file and keeps the states not expired; a
\* missing or corrupted file gives an empty store.
Load ==
    /\ states' = IF state_file.exists /\ state_file.valid
                 THEN CleanupExpired(state_file.transfers)
                 ELSE <<>>
    /\ last_op' = Op("load", None,
                     IF state_file.exists /\ state_file.valid
                     THEN Expired(state_file.transfers)
                     ELSE {})
    /\ UNCHANGED <<state_file, clock, xferVars, discVars>>

NewState(direction, sent_bytes) ==
    [direction |-> direction, sent_bytes |-> sent_bytes, updated_at |-> clock]

Touch(st, sent_bytes) ==
    [st EXCEPT !.sent_bytes = sent_bytes, !.updated_at = clock]

SaveTransfer(name, direction, tid, sent_bytes) ==
    Save(Put(states, tid,
             IF tid \in DOMAIN states
             THEN Touch(states[tid], sent_bytes)
             ELSE NewState(direction, sent_bytes)),
         name, tid)

SaveOutgoingTransfer(tid, sent_bytes) ==
    SaveTransfer("save_outgoing", "outgoing", tid, sent_bytes)

SaveIncomingTransfer(tid, received_bytes) ==
    SaveTransfer("save_incoming", "incoming", tid, received_bytes)

StateCompleteTransfer(tid) ==
    IF tid \in DOMAIN states
    THEN Save(Del(states, tid), "complete", tid)
    ELSE NoWrite("complete", tid)

StateFailTransfer(tid) ==
    IF tid \in DOMAIN states
    THEN Save([states EXCEPT ![tid].updated_at = clock], "fail", tid)
    ELSE NoWrite("fail", tid)

StateRemoveTransfer(tid) ==
    IF tid \in DOMAIN states
    THEN Save(Del(states, tid), "remove", tid)
    ELSE NoWrite("remove", tid)

ClearAll == Save(<<>>, "clear_all", None)

\* The environment: time passes; the file is damaged.
Tick ==
    /\ clock < MaxClock
    /\ clock' = clock + 1
    /\ last_op' = Op("tick", None, {})
    /\ UNCHANGED <<states, state_file, xferVars, discVars>>

CorruptFile ==
    /\ state_file.exists
    /\ state_file.valid
    /\ state_file' = [state_file EXCEPT !.valid = FALSE]
    /\ last_op' = Op("corrupt", None, {})
    /\ UNCHANGED <<states, clock, xferVars, discVars>>

(***************************************************************************)
(* Specifications.                                                         *)
(***************************************************************************)
Init ==
    /\ incoming = <<>>
    /\ live = {}
    /\ disk = <<>>
    /\ handlers = <<>>
    /\ outgoing = <<>>
    /\ cur = 0
    /\ spc = "idle"
    /\ job = NoJob
    /\ cancel_flags = <<>>
    /\ resp = NoResp
    /\ queue = <<>>
    /\ pending_sends = <<>>
    /\ cancel_tasks = {}
    /\ njobs = 0
    /\ mgr = "running"
    /\ src = [p \in Paths |-> IF p = "d" THEN [kind |-> "dir", data |-> <<>>]
                              ELSE IF p = "e"
                              THEN [kind |-> "file", data |-> DataE]
                              ELSE IF p = "m"
                              THEN [kind |-> "missing", data |-> <<>>]
                              ELSE [kind |-> "file", data |-> DataF]]
    /\ nforeign = 0
    /\ nevents = 0
    /\ posted = {}
    /\ early = {}
    /\ ret = [calls |-> 0, id |-> NoId, value |-> FALSE]
    /\ raised = 0
    /\ disc = "stopped"
    /\ peers = <<>>
    /\ emitted = <<>>
    /\ last_event = [n \in Names |-> [ever |-> None, run |-> None]]
    /\ states = <<>>
    /\ state_file = NoFile
    /\ clock = 0
    /\ last_op = Op("init", None, {})

\* A step of the program itself; a user command or environment event, which
\* counts against the budget: cancel_transfer (it sets ret), queue_send (it
\* sets raised), and any other.
Free == UNCHANGED <<nevents, ret, raised, discVars, storeVars>>
Budget ==
    /\ nevents < MaxEvents
    /\ nevents' = nevents + 1
    /\ UNCHANGED <<discVars, storeVars>>
Command == Budget /\ UNCHANGED raised
Call == Budget /\ UNCHANGED ret
Event == Budget /\ UNCHANGED <<ret, raised>>

\* The application: sends are queued by the user and run by the send worker;
\* another client may cancel a transfer on the receiver.
Next ==
    \/ Call /\ \E p \in Paths : QueueSend(p)
    \/ Command /\ \E qid \in QueueIds : CancelTransfer(qid)
    \/ Free /\ \E p \in Paths : CancelTask(p)
    \/ Event /\ ClearCompleted
    \/ Free /\ Dequeue
    \/ Free /\ PackDone
    \/ Free /\ HashDone
    \/ Free /\ InitResp
    \/ Free /\ OpenDone
    \/ Free /\ ReadDone
    \/ Free /\ ChunkResp
    \/ Free /\ BackoffDone
    \/ Free /\ CloseDone
    \/ Free /\ CompleteResp
    \/ Event /\ TransportFail
    \/ Event /\ Stop
    \/ Free /\ StopDone
    \/ Event /\ ModifyFile
    \/ Event /\ ForeignCancel
    \/ Free /\ Arrive
    \/ Free /\ HandlerStep

Spec == Init /\ [][Next]_vars

\* The receiver serving arbitrary HTTP clients, with its manager.
RecvNext ==
    \/ Free /\ ForeignInit
    \/ Free /\ ForeignChunk
    \/ Free /\ ForeignComplete
    \/ Free /\ ForeignCancel
    \/ Free /\ HandlerStep
    \/ Command /\ \E qid \in QueueIds : CancelTransfer(qid)
    \/ Free /\ ClearCompleted

SpecRecv == Init /\ [][RecvNext]_vars

\* The sender driven directly: a send of file "f" may fail or be cancelled,
\* and a later send may resume it.
ResumeNext ==
    \/ Event /\ \E r \in {NoId} \cup DOMAIN incoming : SendFile("f", r)
    \/ Event /\ CancelSend
    \/ Event /\ TransportFail
    \/ Free /\ HashDone
    \/ Free /\ InitResp
    \/ Free /\ OpenDone
    \/ Free /\ ReadDone
    \/ Free /\ ChunkResp
    \/ Free /\ BackoffDone
    \/ Free /\ CloseDone
    \/ Free /\ CompleteResp
    \/ Free /\ Arrive
    \/ Free /\ HandlerStep

SpecResume == Init /\ [][ResumeNext]_vars

\* The sender driven directly through send_path: file "f", which may be
\* interrupted and resumed, and folder "d".
SendNext ==
    \/ Event /\ \E r \in {NoId} \cup DOMAIN incoming : SendFile("f", r)
    \/ Event /\ SendFolder("d")
    \/ Event /\ CancelSend
    \/ Event /\ TransportFail
    \/ Free /\ PackDone
    \/ Free /\ HashDone
    \/ Free /\ InitResp
    \/ Free /\ OpenDone
    \/ Free /\ ReadDone
    \/ Free /\ ChunkResp
    \/ Free /\ BackoffDone
    \/ Free /\ CloseDone
    \/ Free /\ CompleteResp
    \/ Free /\ Arrive
    \/ Free /\ HandlerStep

SpecSend == Init /\ [][SendNext]_vars

\* The send worker with a user who queues sends and a file system on which
\* a queued path may disappear.
WorkerNext ==
    \/ Call /\ \E p \in Paths : QueueSend(p)
    \/ Event /\ \E p \in Paths : RemovePath(p)
    \/ Free /\ Dequeue
    \/ Free /\ PackDone
    \/ Free /\ HashDone
    \/ Free /\ InitResp
    \/ Free /\ OpenDone
    \/ Free /\ ReadDone
    \/ Free /\ ChunkResp
    \/ Free /\ BackoffDone
    \/ Free /\ CloseDone
    \/ Free /\ CompleteResp
    \/ Event /\ TransportFail
    \/ Free /\ Arrive
    \/ Free /\ HandlerStep

SpecWorker == Init /\ [][WorkerNext]_vars

\* The discovery service with its listener.
DiscNext ==
    \/ DiscStart
    \/ DiscStop
    \/ \E name \in Names, info \in ServiceInfos : AddService(name, info)
    \/ \E name \in Names : RemoveService(name)
    \/ \E name \in Names, info \in ServiceInfos : UpdateService(name, info)

SpecDisc == Init /\ [][DiscNext]_vars

\* The state store under any sequence of calls, across restarts.
StoreNext ==
    \/ Load
    \/ \E tid \in StateIds, n \in SentBytes : SaveOutgoingTransfer(tid, n)
    \/ \E tid \in StateIds, n \in SentBytes : SaveIncomingTransfer(tid, n)
    \/ \E tid \in StateIds : StateCompleteTransfer(tid)
    \/ \E tid \in StateIds : StateFailTransfer(tid)
    \/ \E tid \in StateIds : StateRemoveTransfer(tid)
    \/ ClearAll
    \/ Tick
    \/ CorruptFile

SpecStore == Init /\ [][StoreNext]_vars

\* The sender driven directly, with cancellations by flag.
ClientNext ==
    \/ Event /\ \E p \in {"f", "e"} : SendFile(p, NoId)
    \/ Event /\ \E p \in {"f", "e"} : ClientCancel(p)
    \/ Event /\ TransportFail
    \/ Free /\ HashDone
    \/ Free /\ InitResp
    \/ Free /\ OpenDone
    \/ Free /\ ReadDone
    \/ Free /\ ChunkResp
    \/ Free /\ BackoffDone
    \/ Free /\ CloseDone
    \/ Free /\ CompleteResp
    \/ Free /\ Arrive
    \/ Free /\ HandlerStep

SpecClient == Init /\ [][ClientNext]_vars

(***************************************************************************)
(* Properties.                                                             *)
(***************************************************************************)
\* C1: in every reachable state every transfer record has
\* 0 <= transferred <= total_size: an IncomingTransfer's received_bytes, an
\* OutgoingTransfer's sent_bytes and a QueuedTransfer's transferred_bytes.
C1_BytesWithinTotal ==
    /\ \A tid \in DOMAIN incoming :
          /\ 0 <= incoming[tid].received_bytes
          /\ incoming[tid].received_bytes <= incoming[tid].total_size
    /\ \A k \in DOMAIN outgoing :
          /\ 0 <= outgoing[k].sent_bytes
          /\ outgoing[k].sent_bytes <= outgoing[k].total_size
    /\ \A i \in DOMAIN queue :
          /\ 0 <= queue[i].transferred_bytes
          /\ queue[i].transferred_bytes <= queue[i].total_size

\* C2: a transfer is completed (the receiver has renamed the temp file or set
\* completed, the sender's status is COMPLETED, a QueuedTransfer's status is
\* "completed") only if the expected hash declared at init was empty or the
\* hash the receiver computed when it handled /transfer/complete equals it.
C2_CompletedOnlyIfVerified ==
    /\ \A tid \in DOMAIN incoming :
          incoming[tid].renamed \/ incoming[tid].completed
             => \/ incoming[tid].expected_hash = NoHash
                \/ incoming[tid].computed_hash = incoming[tid].expected_hash
    /\ \A k \in DOMAIN outgoing :
          outgoing[k].status = "completed"
             => /\ outgoing[k].transfer_id \in DOMAIN incoming
                /\ incoming[outgoing[k].transfer_id].completed
                /\ incoming[outgoing[k].transfer_id].expected_hash
                      = outgoing[k].file_hash
    /\ \A i \in DOMAIN queue :
          queue[i].status = "completed"
             => IF queue[i].direction = "incoming"
                THEN incoming[queue[i].id].completed
                ELSE /\ queue[i].outgoing \in DOMAIN outgoing
                     /\ outgoing[queue[i].outgoing].status = "completed"

\* C2: a send whose file was rewritten after it was hashed has been refused at
\* /transfer/complete, and another send has been verified and completed.
C2_Witness ==
    /\ \E tid \in DOMAIN incoming :
          /\ incoming[tid].error = "hash"
          /\ ~incoming[tid].renamed
    /\ \E i \in DOMAIN queue :
          /\ queue[i].direction = "outgoing"
          /\ queue[i].status = "completed"
          /\ outgoing[queue[i].outgoing].file_hash # NoHash

\* C3: a QueuedTransfer, outgoing or incoming, for which cancel_transfer has
\* returned True (its status has been "cancelled") never has the status
\* "completed" in a later state.
C3_CancelledNeverCompleted ==
    \A i \in DOMAIN queue :
        queue[i].was_cancelled => queue[i].status # "completed"

\* C4: once a QueuedTransfer's status is "completed", no step changes the
\* status of that entry (it may only be removed from the queue).
C4_CompletedIsFinal ==
    [][\A i \in DOMAIN queue :
          queue[i].status = "completed"
             => \A j \in DOMAIN queue' :
                   queue'[j].id = queue[i].id
                      => queue'[j].status = "completed"]_vars

\* C5: for one transfer-id the chunks appended to the temp file have strictly
\* increasing start offsets (no two appended chunks carry the same start),
\* and when no chunk handler of the transfer is in flight the length of the
\* temp file equals received_bytes.
C5_MonotonicWrites ==
    \A tid \in DOMAIN incoming :
        LET w == incoming[tid].writes IN
        /\ \A a, b \in DOMAIN w : a < b => w[a][1] < w[b][1]
        /\ (/\ TempPath(tid) \in DOMAIN disk
            /\ \A i \in DOMAIN handlers :
                  ~(handlers[i].kind = "chunk" /\ handlers[i].tid = tid))
              => Len(disk[TempPath(tid)]) = incoming[tid].received_bytes

\* C6: after /transfer/complete has answered 200 for a transfer, no temp file
\* of the transfer exists, its final file exists with a size equal to
\* total_size, and the transfer is not in the receiver's map.
C6_AfterComplete ==
    \A tid \in DOMAIN incoming :
        incoming[tid].complete_status = 200
           => LET final == FinalPath(incoming[tid].filename, incoming[tid].final)
              IN /\ TempPath(tid) \notin DOMAIN disk
                 /\ final \in DOMAIN disk
                 /\ Len(disk[final]) = incoming[tid].total_size
                 /\ tid \notin live

\* C7: after DELETE /transfer/{id} has answered {status: cancelled}, no temp
\* file of the transfer exists and the transfer has no final file.
C7_AfterCancel ==
    \A tid \in DOMAIN incoming :
        incoming[tid].deleted
           => /\ TempPath(tid) \notin DOMAIN disk
              /\ ~(/\ incoming[tid].renamed
                    /\ FinalPath(incoming[tid].filename, incoming[tid].final)
                          \in DOMAIN disk)

\* C8: when a send that resumed a transfer (its init carried resume_id and was
\* answered with that id) is completed, the chunks appended to the temp file
\* are those of an uninterrupted transfer, in order and once each, and the
\* hash the receiver computed equals the expected hash.
C8_ResumeIdempotent ==
    \A k \in DOMAIN outgoing :
        outgoing[k].resumed /\ outgoing[k].status = "completed"
           => LET t == incoming[outgoing[k].transfer_id] IN
              /\ t.writes = ChunksOf(src[outgoing[k].file_path].data, 0)
              /\ t.computed_hash = t.expected_hash

\* C9: every step changes the status of an OutgoingTransfer only along
\* CONNECTING -> TRANSFERRING <-> RETRYING, TRANSFERRING -> VERIFYING ->
\* COMPLETED, or from a non-terminal status to FAILED or CANCELLED; a status of
\* COMPLETED, FAILED or CANCELLED never changes.
C9_StatusTransitions ==
    [][\A k \in DOMAIN outgoing :
          LET old == outgoing[k].status
              new == outgoing'[k].status
          IN \/ new = old
             \/ old = "connecting" /\ new = "transferring"
             \/ old = "transferring" /\ new \in {"retrying", "verifying"}
             \/ old = "retrying" /\ new = "transferring"
             \/ old = "verifying" /\ new = "completed"
             \/ ~Terminal(old) /\ new \in {"failed", "cancelled"}]_vars

\* C10: an OutgoingTransfer whose status is CANCELLED has never posted
\* /transfer/complete.
C10_CancelledNeverPosted ==
    \A k \in DOMAIN outgoing :
        outgoing[k].status = "cancelled" => k \notin posted

\* C11: after cancel_transfer was invoked on an outgoing file transfer with a
\* chunk posted and a later chunk remaining, the QueuedTransfer's status is
\* "cancelled" in every later state and the receiver creates no final file
\* for the transfer.
C11_CancelMidTransfer ==
    \A i \in DOMAIN queue :
        queue[i].mid_cancel
           => /\ queue[i].status = "cancelled"
              /\ LET tid == outgoing[queue[i].outgoing].transfer_id IN
                 tid \in DOMAIN incoming => ~incoming[tid].renamed

\* C12: when cancel_transfer sets 'cancelled' on the queue entry of the folder
\* job whose archive send_file is sending (started was emitted, the send has
\* not left the chunk loop), the sender's cancellation flag for the key of
\* that send is set, or the task that sets it has been created.
C12_FolderCancelReachesSender ==
    [][\A i \in DOMAIN queue :
          (/\ cur # 0 /\ job.folder /\ queue[i].id = job.queue_id
           /\ spc \in {"init", "open", "read", "chunk", "backoff"}
           /\ queue[i].status # "cancelled"
           /\ i \in DOMAIN queue'
           /\ queue'[i].id = queue[i].id
           /\ queue'[i].status = "cancelled")
             => \/ TransferKey \in cancel_tasks'
                \/ /\ TransferKey \in DOMAIN cancel_flags'
                   /\ cancel_flags'[TransferKey]]_vars

\* C13: a step attaches an OutgoingTransfer to an outgoing QueuedTransfer only
\* if the entry had none attached and the send is the one started for the
\* entry's own job; an attached entry is never attached again.
C13_AttachedOnce ==
    [][\A i \in DOMAIN queue :
          \A j \in DOMAIN queue' :
             (/\ queue[i].direction = "outgoing"
              /\ queue'[j].id = queue[i].id
              /\ queue'[j].outgoing # queue[i].outgoing)
                => /\ queue[i].outgoing = 0
                   /\ job.queue_id = queue[i].id]_vars

\* C14: the send worker runs the jobs in the order queue_send enqueued them
\* and one at a time: the sends were started in the order of their queue-ids,
\* every job still waiting was enqueued after every job started, every send
\* but the running one has ended, and at most one OutgoingTransfer is in the
\* sender's active map.
C14_FifoOneAtATime ==
    /\ Cardinality(DOMAIN cancel_flags) <= 1
    /\ cur # 0 => cur = Len(outgoing)
    /\ \A k \in DOMAIN outgoing : k # cur => Terminal(outgoing[k].status)
    /\ \A k1, k2 \in DOMAIN outgoing :
          k1 < k2 => outgoing[k1].queue_id[2] < outgoing[k2].queue_id[2]
    /\ \A a, b \in DOMAIN pending_sends :
          a < b => pending_sends[a].queue_id[2] < pending_sends[b].queue_id[2]
    /\ \A a \in DOMAIN pending_sends :
          /\ job.queue_id[2] < pending_sends[a].queue_id[2]
          /\ \A k \in DOMAIN outgoing :
                outgoing[k].queue_id[2] < pending_sends[a].queue_id[2]
    /\ \A k \in DOMAIN outgoing :
          job.queue_id # NoId => outgoing[k].queue_id[2] <= job.queue_id[2]

\* C14: the send of the second job is posting a chunk after the send of the
\* first job has ended, and a third job is waiting.
C14_Witness ==
    /\ Len(outgoing) = 2 /\ cur = 2 /\ spc = "chunk"
    /\ outgoing[1].queue_id = Qid(1)
    /\ outgoing[2].queue_id = Qid(2)
    /\ Len(pending_sends) = 1

\* C16: the /transfer/init of a zero-byte file is accepted: the response the
\* sender receives for the init of a transfer of size 0 is a 200.
C16_ZeroByteAccepted ==
    (/\ cur # 0 /\ spc = "init"
     /\ outgoing[cur].total_size = 0
     /\ resp # NoResp /\ resp # TransportError)
       => resp.status = 200

\* C15: when the sender receives the answer to its /transfer/init: if the
\* request's resume_id names a live transfer with the request's filename and
\* size, the answer is that transfer_id with resume_offset = received_bytes
\* and status "resuming", and no record or file is created; in every other
\* case the answer is a 200 with status "ready" and resume_offset 0 for a
\* newly registered transfer-id whose temp file is empty, and the records
\* that existed are unchanged.
C15_InitResumeOrNew ==
    [][(/\ cur # 0 /\ spc = "init" /\ resp = NoResp
        /\ resp' # NoResp /\ resp' # TransportError)
          => LET r == job.resume_id
                 tid == resp'.transfer_id
             IN IF /\ r # NoId /\ r \in live
                   /\ incoming[r].filename = outgoing[cur].file_path
                   /\ incoming[r].total_size = outgoing[cur].total_size
                THEN /\ resp' = Response(200, "resuming", r,
                                         incoming[r].received_bytes)
                     /\ UNCHANGED <<incoming, live, disk>>
                ELSE /\ resp' = Response(200, "ready", tid, 0)
                     /\ tid # r
                     /\ tid \in live'
                     /\ incoming'[tid].received_bytes = 0
                     /\ TempPath(tid) \in DOMAIN disk'
                     /\ disk'[TempPath(tid)] = <<>>
                     /\ \A x \in DOMAIN incoming \ {tid} :
                           /\ x \in DOMAIN incoming'
                           /\ incoming'[x] = incoming[x]]_vars

\* C17: a chunk is posted at most max_retries + 1 = 6 times; the waits before
\* the retries of one chunk are 1, 2, 4, 8, 16 seconds, in this order (never
\* above 30, starting again at 1 for the chunk after a successful one); the
\* error 'Max retries exceeded' is set, with status FAILED at that moment,
\* exactly when the 6th attempt of a chunk has failed, and failed is emitted
\* once for the transfer.
C17_RetryBackoff ==
    /\ job.attempts <= 6
    /\ job.waits = SubSeq(<<1, 2, 4, 8, 16>>, 1, Len(job.waits))
    /\ job.prev_waits = SubSeq(<<1, 2, 4, 8, 16>>, 1, Len(job.prev_waits))
    /\ \A n \in DOMAIN job.waits : job.waits[n] <= 30
    /\ spc = "chunk" => job.attempts = Len(job.waits) + 1
    /\ spc = "backoff" => job.attempts = Len(job.waits) /\ job.attempts <= 5
    /\ \A k \in DOMAIN outgoing :
          /\ outgoing[k].failed_emitted <= 1
          /\ outgoing[k].error = "max_retries"
                => /\ outgoing[k].failed_emitted = 1
                   /\ outgoing[k].retry_count = 6
                   /\ outgoing[k].status \in {"failed", "cancelled"}
                   /\ k = cur => /\ job.attempts = 6
                                 /\ job.waits = <<1, 2, 4, 8, 16>>
                                 /\ outgoing[k].status = "failed"

\* C17: the second chunk has failed six times, after waits of 1, 2, 4, 8 and
\* 16 seconds, and the transfer is FAILED with 'Max retries exceeded'; the
\* first chunk had needed one retry, after a wait of 1 second.
C17_Witness ==
    /\ cur # 0 /\ spc = "closing"
    /\ outgoing[cur].status = "failed"
    /\ outgoing[cur].error = "max_retries"
    /\ outgoing[cur].sent_bytes > 0
    /\ job.attempts = 6
    /\ job.waits = <<1, 2, 4, 8, 16>>
    /\ job.prev_waits = <<1>>

C19_CancelTransferFrame ==
    [][ret'.calls # ret.calls
         => LET ids == {i \in DOMAIN queue : queue[i].id = ret'.id} IN
            IF ids = {} \/ \E i \in ids : queue[i].status = "completed"
            THEN /\ ret'.value = FALSE
                 /\ UNCHANGED <<recvVars, sendVars, mgrVars, src, nforeign>>
            ELSE /\ ret'.value = TRUE
                 /\ DOMAIN queue' = DOMAIN queue
                 /\ \A i \in DOMAIN queue :
                       IF i \in ids
                       THEN /\ queue'[i].status = "cancelled"
                            /\ queue'[i].id = queue[i].id
                       ELSE queue'[i] = queue[i]]_vars

\* C19: the last cancel_transfer named a completed entry and returned False,
\* and the entry is still completed.
C19_Witness ==
    /\ ret.calls > 0
    /\ ret.value = FALSE
    /\ \E i \in DOMAIN queue :
          queue[i].id = ret.id /\ queue[i].status = "completed"

\* C20: a clear_completed step removes from the queue exactly the entries
\* whose status is completed, failed or cancelled: every other entry is in
\* the queue afterwards, unchanged and in the same order, nothing is added,
\* and nothing but the queue changes.
C20_ClearCompletedFrame ==
    [][ClearCompleted
         => /\ \A i \in DOMAIN queue :
                  IF queue[i].status \in {"completed", "failed", "cancelled"}
                  THEN \A j \in DOMAIN queue' : queue'[j].id # queue[i].id
                  ELSE \E j \in DOMAIN queue' : queue'[j] = queue[i]
            /\ \A j \in DOMAIN queue' :
                  \E i \in DOMAIN queue : queue[i] = queue'[j]
            /\ \A a, b \in DOMAIN queue :
                  \A c, d \in DOMAIN queue' :
                     (a < b /\ queue'[c] = queue[b] /\ queue'[d] = queue[a])
                        => d < c
            /\ UNCHANGED <<incoming, live, disk, handlers, resp, sendVars,
                           mgrVars, src, nforeign>>]_vars

\* C20: clear_completed has removed the entry of the first job, and the
\* entry of the second job, which is not in a final status, is still there.
C20_Witness ==
    /\ njobs = 2
    /\ \A i \in DOMAIN queue : queue[i].id # Qid(1)
    /\ \E i \in DOMAIN queue :
          /\ queue[i].id = Qid(2)
          /\ queue[i].status \in {"pending", "connecting", "transferring",
                                  "retrying", "verifying"}

\* C21: a queue_send on a path that does not exist raises and changes nothing
\* in the manager: no QueuedTransfer is inserted, no job is put on the
\* pending sends, no queue-id is used up; and queue_send raises in no other
\* case.
C21_QueueSendMissingPath ==
    [][/\ (\E p \in Paths : src[p].kind = "missing" /\ QueueSend(p))
            => /\ raised' = raised + 1
               /\ UNCHANGED <<recvVars, sendVars, mgrVars, src, nforeign, ret>>
       /\ raised' # raised
            => /\ \E p \in Paths : src[p].kind = "missing"
               /\ UNCHANGED <<queue, pending_sends, njobs>>]_vars

\* C21: one queue_send has raised and another has queued a job; the queue
\* holds only the entry of the second.
C21_Witness ==
    /\ raised = 1
    /\ njobs = 1
    /\ Len(queue) = 1
    /\ Len(pending_sends) = 1

\* C22: after the receiver's stop() has completed, the transfer map is empty
\* and no temp file exists of a transfer that was in the map when stop()
\* began.
C22_AfterStop ==
    mgr = "stopped"
       => /\ live = {}
          /\ \A tid \in DOMAIN incoming :
                incoming[tid].live_at_stop => TempPath(tid) \notin DOMAIN disk

\* C23: a browse 'add' event whose service resolves to an IPv4 address never
\* inserts a peer at this machine's own (local ip, port); any other one
\* stores the newly resolved peer under the service instance name, also when
\* the name is already in the table, and emits peer-added for it.
C23_AddUpserts ==
    [][\A name \in Names, info \in ServiceInfos :
          (info.found /\ info.addresses # <<>> /\ AddService(name, info))
             => IF info.addresses[1] = LocalIp /\ info.port = DEFAULT_PORT
                THEN peers' = peers /\ emitted' = <<>>
                ELSE /\ peers' = Put(peers, name, NewPeer(name, info))
                     /\ emitted' = <<PeerAdded(NewPeer(name, info))>>]_vars

\* The state store after an operation: it holds no record older than
\* STATE_CLEANUP_AGE, and every record the operation had before it that was
\* no older than that, other than the operation's own, is still there.
WriteOps ==
    {"save_outgoing", "save_incoming", "complete", "fail", "remove",
     "clear_all", "load"}
Before ==
    IF last_op'.name = "load"
    THEN IF state_file.exists /\ state_file.valid
         THEN state_file.transfers
         ELSE <<>>
    ELSE IF last_op'.name = "clear_all" THEN <<>> ELSE states
SweptAndKept ==
    /\ \A tid \in DOMAIN states' :
          clock' - states'[tid].updated_at <= STATE_CLEANUP_AGE
    /\ \A tid \in DOMAIN Before \ {last_op'.tid} :
          clock - Before[tid].updated_at <= STATE_CLEANUP_AGE
             => tid \in DOMAIN states' /\ states'[tid] = Before[tid]

\* C24: after save_outgoing, save_incoming, complete, fail, remove, clear_all
\* and after load, the store holds no record whose updated_at is more than
\* the cleanup age before the current time, and the records at most that old
\* were retained.
C24_NoExpiredAfterWrite ==
    [][last_op'.name \in WriteOps => SweptAndKept]_vars

\* C24 as amended: the same, for complete, fail and remove only when the
\* store holds the transfer-id they are given.
C24_NoExpiredAfterSave ==
    [][(/\ last_op'.name \in WriteOps
        /\ last_op'.name \in {"complete", "fail", "remove"}
              => last_op'.tid \in DOMAIN states)
          => SweptAndKept]_vars
C24_Witness ==
    /\ last_op.name = "save_incoming"
    /\ last_op.swept # {}
    /\ last_op.tid \in DOMAIN states
    /\ state_file = Written(states)

\* C25: a /transfer/chunk request for a live transfer whose Content-Range
\* start differs from the transfer's received_bytes is answered 400 with
\* expected = received_bytes and received = the declared start, and changes
\* nothing: the temp file, received_bytes, the running hash and every other
\* field of the record stay as they are, nothing is written later for the
\* request, and no progress reaches the queue.
C25_OutOfOrderChunk ==
    [][\A i \in DOMAIN handlers :
          LET h == handlers[i]
              rest == RemoveAt(handlers, i)
          IN (/\ h.kind = "chunk" /\ h.pc = "sent"
              /\ h.tid \in live
              /\ h.start # incoming[h.tid].received_bytes
              /\ ChunkArrive(h, rest))
                => /\ UNCHANGED <<incoming, live, disk, queue>>
                   /\ handlers' = rest
                   /\ h.waiting
                         => resp' = [status |-> 400, what |-> "chunk",
                                     transfer_id |-> h.tid,
                                     resume_offset
                                        |-> incoming[h.tid].received_bytes,
                                     received |-> h.start,
                                     hashes |-> <<>>]]_vars
C25_Witness ==
    /\ resp.status = 400 /\ resp.what = "chunk"
    /\ resp.transfer_id \in live
    /\ resp.resume_offset = incoming[resp.transfer_id].received_bytes
    /\ resp.resume_offset # resp.received
    /\ incoming[resp.transfer_id].received_bytes > 0

\* C26: a /transfer/chunk request that returns 200 has appended exactly the
\* bytes of its body to the temp file, and on returning increases the
\* transfer's received_bytes by exactly the length of the body and feeds
\* exactly those bytes to the running hash; received_bytes never decreases.
C26_ChunkCounted ==
    [][/\ \A i \in DOMAIN handlers :
             LET h == handlers[i]
                 temp == TempPath(h.tid)
             IN /\ ChunkWrite(i)
                     => /\ disk'[temp] =
                              (IF temp \in DOMAIN disk THEN disk[temp]
                               ELSE <<>>) \o h.body
                        /\ \A p \in DOMAIN disk \ {temp} :
                              p \in DOMAIN disk' /\ disk'[p] = disk[p]
                        /\ handlers'[i].pc = "written"
                /\ ChunkFinish(i)
                     => /\ incoming'[h.tid].received_bytes =
                              incoming[h.tid].received_bytes + Len(h.body)
                        /\ incoming'[h.tid].hasher =
                              incoming[h.tid].hasher \o h.body
                        /\ h.waiting
                              => /\ resp'.status = 200
                                 /\ resp'.resume_offset =
                                        incoming'[h.tid].received_bytes
                /\ (h.kind = "chunk" /\ h.waiting /\ resp'.status = 200
                       /\ resp # resp')
                     => h.pc = "written" /\ ChunkFinish(i)
       /\ \A tid \in DOMAIN incoming :
             incoming'[tid].received_bytes >= incoming[tid].received_bytes]_vars
C26_Witness ==
    /\ resp.status = 200 /\ resp.what = "chunk"
    /\ resp.transfer_id \in live
    /\ incoming[resp.transfer_id].received_bytes = Len(DataF)
    /\ incoming[resp.transfer_id].hasher = DataF
    /\ disk[TempPath(resp.transfer_id)] = DataF

\* C27: in every reachable state, every IncomingTransfer in the receiver's
\* transfer map has an existing temp file, also between the registration of
\* the record and the creation of the empty temp file at init, and after a
\* /transfer/complete that failed with a hash mismatch.
C27_LiveHasTempFile ==
    \A tid \in live : TempPath(tid) \in DOMAIN disk

\* C28: /transfer/complete on a live transfer with received_bytes =
\* total_size whose non-empty expected hash differs from the computed hash
\* returns 400 carrying both hashes, emits failed, deletes the temp file and
\* creates no file; /transfer/complete on a live transfer with
\* received_bytes # total_size returns 400 and leaves the temp file and the
\* record unchanged.
C28_CompleteRefused ==
    [][\A i \in DOMAIN handlers :
          LET h == handlers[i]
              rest == RemoveAt(handlers, i)
              t == incoming[h.tid]
          IN (/\ h.kind = "complete" /\ h.pc = "sent"
              /\ h.tid \in live
              /\ CompleteArrive(h, rest))
                => /\ (/\ t.received_bytes = t.total_size
                       /\ t.expected_hash # NoHash
                       /\ Hexdigest(t.hasher) # t.expected_hash)
                         => /\ TempPath(h.tid) \notin DOMAIN disk'
                            /\ DOMAIN disk' = DOMAIN disk \ {TempPath(h.tid)}
                            /\ \A p \in DOMAIN disk' : disk'[p] = disk[p]
                            /\ \A j \in DOMAIN queue :
                                  queue[j].id = h.tid
                                     => queue'[j].status = "failed"
                            /\ incoming'[h.tid].error # None
                            /\ ~incoming'[h.tid].completed
                            /\ handlers' = rest
                            /\ h.waiting
                                  => /\ resp'.status = 400
                                     /\ resp'.hashes =
                                           <<t.expected_hash,
                                             Hexdigest(t.hasher)>>
                   /\ t.received_bytes # t.total_size
                         => /\ UNCHANGED <<incoming, live, disk, queue>>
                            /\ handlers' = rest
                            /\ h.waiting => resp'.status = 400]_vars
C28_Witness ==
    /\ resp.status = 400 /\ resp.what = "complete"
    /\ resp.hashes # <<>>
    /\ resp.hashes[1] # resp.hashes[2]
    /\ resp.transfer_id \in live
    /\ TempPath(resp.transfer_id) \notin DOMAIN disk
    /\ \E j \in DOMAIN queue :
          queue[j].id = resp.transfer_id /\ queue[j].status = "failed"

\* C29: a retry of a chunk posts the same Content-Range as the attempt
\* before it, and over all the attempts of one chunk, also those the
\* receiver applied without the sender seeing the response, the chunk's
\* byte range is appended to the temp file at most once.
C29_RetryIdempotent ==
    [][/\ (spc = "backoff" /\ spc' = "chunk")
            => LET r == handlers'[Len(handlers')] IN
               /\ r.kind = "chunk"
               /\ r.tid = outgoing[cur].transfer_id
               /\ r.start = outgoing[cur].sent_bytes
               /\ Len(r.body) = Len(job.chunk)
       /\ \A tid \in DOMAIN incoming' :
             LET w == incoming'[tid].writes IN
             \A a, b \in DOMAIN w : w[a][1] = w[b][1] => a = b]_vars

\* C30: transient transport errors are contained in the retry loop: when no
\* cancellation is requested (no cancel_transfer, no DELETE, no stop) and no
\* chunk suffers more than five consecutive failed attempts (requests that
\* never reached the receiver, or whose response was lost after the receiver
\* applied them), a transfer does not end FAILED with its retries exhausted;
\* it goes on to COMPLETED.
C30_TransientContained ==
    (/\ ret.calls = 0
     /\ mgr = "running"
     /\ nforeign = 0
     /\ cancel_tasks = {}
     /\ nevents <= MaxRetries
     /\ \A tid \in DOMAIN incoming : ~incoming[tid].deleted)
       => \A k \in DOMAIN outgoing :
             ~(outgoing[k].status = "failed"
               /\ outgoing[k].error = "max_retries")

\* C31: a send_file that begins after cancellation of its transfer key was
\* requested ends with status CANCELLED at once: it computes no hash and
\* posts neither /transfer/init nor a chunk.
C31_EarlyCancellation ==
    \A k \in DOMAIN outgoing :
        outgoing[k].early_cancel
           => /\ outgoing[k].status = "cancelled"
              /\ outgoing[k].file_hash = NoHash
              /\ outgoing[k].transfer_id = NoId
              /\ k # cur

\* C32: after cancel_transfer has returned True for the entry attached to the
\* running send while a chunk was in flight, the sender's cancellation flag
\* is set before the sender's next check at the top of the chunk loop,
\* whenever the spawned task runs: the sender does not pass that check and
\* go on to read and post a further chunk.
C32_FlagSetBeforeNextCheck ==
    \A i \in DOMAIN queue :
        (/\ queue[i].mid_cancel
         /\ cur # 0
         /\ queue[i].outgoing = cur
         /\ job.queue_id = queue[i].id)
           => spc # "read"

\* C33: an exception raised while the send worker processes one job (the
\* path is gone when send_path looks for it) does not end the worker: with no
\* send running and a job waiting, the worker can take that job.
C33_WorkerSurvives ==
    (/\ \E i \in DOMAIN queue : queue[i].raised
     /\ mgr = "running"
     /\ pending_sends # <<>>
     /\ cur = 0 /\ spc # "packing")
        => ENABLED Dequeue

\* A job queued after the one whose send_path raised has been sent.
C33_Witness ==
    \E i \in DOMAIN queue, k \in DOMAIN outgoing :
        /\ queue[i].raised
        /\ \E j \in DOMAIN queue :
              /\ j > i
              /\ queue[j].id = outgoing[k].queue_id
        /\ outgoing[k].status = "completed"

\* The Content-Ranges of the chunks of a file of the given size from offset
\* o on: starts o, o+C, ... and inclusive ends min(start+C, size)-1.
ExpectedRanges(o, size) ==
    LET n == IF o >= size THEN 0 ELSE (size - o + ChunkSize - 1) \div ChunkSize
    IN [i \in 1..n |-> <<o + (i - 1) * ChunkSize,
                         Min(o + i * ChunkSize, size) - 1,
                         size>>]

\* C34: the chunk POSTs of a send that succeed carry, in order, the ranges
\* that start at the send's offset and advance by the chunk size, with
\* inclusive ends and the file's size as total; a send that has left the
\* loop with everything sent has posted exactly these: ceil((S-o)/C) chunks,
\* k chunks for a file of k*C bytes and one for a file of at most C bytes.
C34_ContentRanges ==
    \A k \in DOMAIN outgoing :
        LET t == outgoing[k]
            expected == ExpectedRanges(t.offset, t.total_size)
        IN /\ Len(t.ranges) <= Len(expected)
           /\ \A i \in DOMAIN t.ranges : t.ranges[i] = expected[i]
           /\ t.status \in {"verifying", "completed"}
                 => t.ranges = expected

\* A send resumed from a non-zero offset has completed after posting the
\* remaining chunks.
C34_Witness ==
    \E k \in DOMAIN outgoing :
        /\ outgoing[k].status = "completed"
        /\ outgoing[k].offset > 0
        /\ outgoing[k].ranges # <<>>

\* The kinds of the callbacks in es for the peer of service name n, in order.
KindsFor(es, n) ==
    LET mine == SelectSeq(es, LAMBDA e : e.peer.device_id = n)
    IN [i \in DOMAIN mine |-> mine[i].kind]

\* After an event of kind prev (None: no event yet) the kinds alternate,
\* starting with added.
Alternates(prev, kinds) ==
    LET all == <<prev>> \o kinds
    IN \A i \in DOMAIN kinds :
          kinds[i] = IF all[i] = "added" THEN "removed" ELSE "added"

\* An update of a known name whose service resolves to another machine's
\* address emits removed for the old peer, then added for the new one.
UpdateReplaces ==
    \A name \in Names, info \in ServiceInfos :
        (/\ info.found /\ info.addresses # <<>>
         /\ ~(info.addresses[1] = LocalIp /\ info.port = DEFAULT_PORT)
         /\ name \in DOMAIN peers
         /\ UpdateService(name, info))
           => /\ emitted' = <<PeerRemoved(peers[name]),
                              PeerAdded(NewPeer(name, info))>>
              /\ peers' = Put(peers, name, NewPeer(name, info))

\* C35 as stated: for each service instance name the peer events emitted by
\* discovery, over its whole life, alternate added, removed, added, ...
\* starting with added; an update of a known name emits removed, then added
\* for the re-resolved peer; after stop() the table is empty.
C35_EventsAlternate ==
    [][/\ (disc = "running" /\ disc' = "running")
            => \A n \in Names :
                  Alternates(last_event[n].ever, KindsFor(emitted', n))
       /\ UpdateReplaces
       /\ disc' = "stopped" => peers' = <<>>]_vars

\* C35, amended: the same, with the alternation counted from the latest
\* start(): stop() clears the table without emitting removed.
C35_EventsAlternateWithinRun ==
    [][/\ (disc = "running" /\ disc' = "running")
            => \A n \in Names :
                  Alternates(last_event[n].run, KindsFor(emitted', n))
       /\ UpdateReplaces
       /\ disc' = "stopped" => peers' = <<>>]_vars

\* An update of a known name has emitted removed and added.
C35_Witness ==
    /\ Len(emitted) = 2
    /\ emitted[1].kind = "removed"
    /\ emitted[2].kind = "added"
    /\ emitted[1].peer.device_id = emitted[2].peer.device_id
    /\ emitted[1].peer # emitted[2].peer

\* C36: for a sender and a receiver working on one transfer-id the sender's
\* sent_bytes is at most the receiver's received_bytes at all times, and
\* every chunk request the sender posts starts at its sent_bytes.
C36_SenderBehindReceiver ==
    /\ [](\A k \in DOMAIN outgoing :
            outgoing[k].transfer_id \in DOMAIN incoming
               => outgoing[k].sent_bytes
                     <= incoming[outgoing[k].transfer_id].received_bytes)
    /\ [][(/\ Len(handlers') = Len(handlers) + 1
           /\ handlers'[Len(handlers')].kind = "chunk"
           /\ handlers'[Len(handlers')].waiting)
             => /\ cur # 0
                /\ handlers'[Len(handlers')].tid = outgoing[cur].transfer_id
                /\ handlers'[Len(handlers')].start = outgoing[cur].sent_bytes
                /\ outgoing'[cur].sent_bytes = outgoing[cur].sent_bytes]_vars

\* A resumed send has posted a chunk from the receiver's offset.
C36_Witness ==
    /\ cur # 0
    /\ outgoing[cur].resumed
    /\ outgoing[cur].sent_bytes > 0
    /\ \E i \in DOMAIN handlers :
          /\ handlers[i].kind = "chunk"
          /\ handlers[i].tid = outgoing[cur].transfer_id
          /\ handlers[i].start = outgoing[cur].sent_bytes

\* C37: two incoming transfers that are live at the same time never have the
\* same final path.
C37_DistinctFinalPaths ==
    \A a \in live, b \in live :
        a # b => FinalPath(incoming[a].filename, incoming[a].final)
                    # FinalPath(incoming[b].filename, incoming[b].final)

\* C38: every outgoing queue entry whose job the worker has dequeued and
\* passed to the sender reaches a terminal status: when the worker is idle
\* again with nothing left to do, no such entry is still non-terminal.
C38_DequeuedReachTerminal ==
    (/\ mgr = "running"
     /\ spc = "idle"
     /\ pending_sends = <<>>
     /\ cancel_tasks = {})
        => \A i \in DOMAIN queue :
              (/\ queue[i].direction = "outgoing"
               /\ \/ queue[i].raised
                  \/ \E k \in DOMAIN outgoing :
                        outgoing[k].queue_id = queue[i].id)
                 => Terminal(queue[i].status)

\* C39: when the worker dequeues a job whose queue entry is cancelled or is
\* no longer in the queue, the job is skipped: no send is started for it and
\* no request is posted.
C39_SkippedJobNotSent ==
    [][(/\ pending_sends # <<>>
        /\ pending_sends' = Tail(pending_sends)
        /\ \A i \in DOMAIN queue :
              queue[i].id = Head(pending_sends).queue_id
                 => queue[i].status = "cancelled")
          => /\ UNCHANGED <<outgoing, cur, spc, job, cancel_flags, handlers>>
             /\ spc' = "idle"]_vars

\* A job was queued, its entry cancelled and cleared, and the worker has
\* taken the job without starting a send.
C39_Witness ==
    /\ njobs > 0
    /\ pending_sends = <<>>
    /\ queue = <<>>
    /\ outgoing = <<>>
    /\ spc = "idle"

====
